---- MODULE Spec2Model ----
(***************************************************************************)
(* Cell-segmentation post-processing pipeline of Stereopy                  *)
(* (stereo/image/segmentation/seg_utils/v1/cell_seg_pipeline_v1.py):       *)
(* tiling (split / merge), ROI extraction, tissue filtering, mosaic,       *)
(* the post-processing worker pool and the orchestrating run().            *)
(*                                                                         *)
(* Rasters are sequences of rows (each a sequence of pixels); numpy's      *)
(* 0-based pixel (r, c) is img[r + 1][c + 1].                              *)
(***************************************************************************)
EXTENDS Integers, Sequences, FiniteSets, TLC

\* ------------------------------------------------------------------ bounds
MaxDim == 6     \* largest raster height / width drawn in the tiling runs
MaxTile == 3    \* largest tile_size (deep_crop_size) drawn in the tiling runs
MaxMaskCols == 3    \* widest tissue mask drawn in the ROI runs (3 rows high)
MaxMinArea == 3     \* largest size threshold of the region filter policy
MaxImages == 2      \* most images in one batch run
MaxWorkers == 2     \* largest post_processing_workers
MaxSlices == 3      \* most data objects held by one MSData
MaxKeys == 4        \* most default names taken from one MSData's generator
MaxRuns == 2        \* most calls of get_roi, and of run, on one pipeline object
MaxOps == 3         \* most in-place operations applied to one expression matrix
MaxLabels == 4      \* most candidate labels given to _fine_tune_parallel
MaxScore == 2       \* largest similarity score of a label, in units of 0.05
MaxTimes == 2       \* largest fine_tune_times

\* ----------------------------------------------------------------- rasters
Height(img) == Len(img)
Width(img) == IF Len(img) = 0 THEN 0 ELSE Len(img[1])
Zeros(h, w) == [r \in 1..h |-> [c \in 1..w |-> 0]]
Min2(a, b) == IF a < b THEN a ELSE b

\* numpy img[r0:r1, c0:c1] (0-based, half-open, ends clipped to the shape)
Slice(img, r0, r1, c0, c1) ==
    LET re == Min2(r1, Height(img))
        ce == Min2(c1, Width(img))
    IN  [i \in 1..(re - r0) |-> SubSeq(img[r0 + i], c0 + 1, ce)]

\* The raster whose every pixel holds its own coordinate (never 0): split and
\* merge never look at pixel values, so what they do to this raster they do
\* to every raster of the shape.
CoordRaster(h, w) == [r \in 1..h |-> [c \in 1..w |-> (r - 1) * w + c]]

\* ---------------------------------------------------------------- TileGrid
\* Origins of the tiles along one axis of length n: walk from p with stride
\* cut_size - ov; the tile that would reach or pass the far edge is the last
\* one and is placed to end exactly at the edge (at 0 when the axis is
\* shorter than the tile).
RECURSIVE AxisStarts(_, _, _, _)
AxisStarts(p, n, cut_size, ov) ==
    IF p + cut_size >= n
    THEN << IF n > cut_size THEN n - cut_size ELSE 0 >>
    ELSE <<p>> \o AxisStarts(p + (cut_size - ov), n, cut_size, ov)

\* the distance of the last nominal origin from n - cut_size whatever the length
RECURSIVE AxisAddToEdge(_, _, _, _)
AxisAddToEdge(p, n, cut_size, ov) ==
    IF p + cut_size >= n
    THEN p - (n - cut_size)
    ELSE AxisAddToEdge(p + (cut_size - ov), n, cut_size, ov)

\* How far the last tile of the axis was shifted back from its nominal origin.
RECURSIVE AxisAdd(_, _, _, _)
AxisAdd(p, n, cut_size, ov) ==
    IF p + cut_size >= n
    THEN IF n > cut_size THEN p - (n - cut_size) ELSE 0
    ELSE AxisAdd(p + (cut_size - ov), n, cut_size, ov)

\* utils.split(image, cut_size, overlap) ->
\*     (img_list, x_list, y_list, width_add, height_add), tiles in row-major order
split(image, cut_size, ov) ==
    LET xs == AxisStarts(0, Height(image), cut_size, ov)
        ys == AxisStarts(0, Width(image), cut_size, ov)
        n  == Len(xs) * Len(ys)
        xk(k) == xs[((k - 1) \div Len(ys)) + 1]
        yk(k) == ys[((k - 1) % Len(ys)) + 1]
    IN  [ img_list   |-> [k \in 1..n |->
                            Slice(image, xk(k), xk(k) + cut_size, yk(k), yk(k) + cut_size)],
          x_list     |-> [k \in 1..n |-> xk(k)],
          y_list     |-> [k \in 1..n |-> yk(k)],
          width_add  |-> AxisAdd(0, Width(image), cut_size, ov),
          height_add |-> AxisAdd(0, Height(image), cut_size, ov) ]

\* Rows / columns of the tile at (x, y) that merge skips: height_add rows of
\* a tile of the last tile row, width_add columns of a tile of the last tile
\* column; nothing of any other tile.
SkipRows(k, x_list, height_add) ==
    IF x_list[k] = x_list[Len(x_list)] THEN height_add ELSE 0
SkipCols(k, y_list, width_add) ==
    IF y_list[k] = y_list[Len(y_list)] THEN width_add ELSE 0

\* One iteration of merge's loop: copy tile k, without its skipped rows and
\* columns, to its placement in image.
MergeTile(image, tile, x, y, sr, sc) ==
    [r \in 1..Height(image) |->
        IF r > x + sr /\ r <= x + Height(tile)
        THEN [c \in 1..Width(image) |->
                IF c > y + sc /\ c <= y + Width(tile)
                THEN tile[r - x][c - y]
                ELSE image[r][c]]
        ELSE image[r]]

RECURSIVE MergeFrom(_, _, _, _, _, _, _)
MergeFrom(image, k, label_list, x_list, y_list, width_add, height_add) ==
    IF k > Len(label_list) THEN image
    ELSE MergeFrom(MergeTile(image, label_list[k], x_list[k], y_list[k],
                             SkipRows(k, x_list, height_add),
                             SkipCols(k, y_list, width_add)),
                   k + 1, label_list, x_list, y_list, width_add, height_add)

\* utils.merge(label_list, x_list, y_list, shapes, width_add, height_add)
merge(label_list, x_list, y_list, shapes, width_add, height_add) ==
    MergeFrom(Zeros(shapes[1], shapes[2]), 1, label_list, x_list, y_list,
              width_add, height_add)

\* merge instrumented with a per-pixel write counter: the same loop, each
\* copy replaced by an increment of the pixels it writes.
RECURSIVE MergeWritesFrom(_, _, _, _, _, _, _)
MergeWritesFrom(count, k, label_list, x_list, y_list, width_add, height_add) ==
    IF k > Len(label_list) THEN count
    ELSE LET x == x_list[k]
             y == y_list[k]
             bumped == [i \in 1..Height(label_list[k]) |->
                          [j \in 1..Width(label_list[k]) |-> count[x + i][y + j] + 1]]
         IN  MergeWritesFrom(MergeTile(count, bumped, x, y,
                                       SkipRows(k, x_list, height_add),
                                       SkipCols(k, y_list, width_add)),
                             k + 1, label_list, x_list, y_list, width_add, height_add)

MergeWrites(label_list, x_list, y_list, shapes, width_add, height_add) ==
    MergeWritesFrom(Zeros(shapes[1], shapes[2]), 1, label_list, x_list, y_list,
                    width_add, height_add)

\* merge's defensive check: as many placements as tiles, every tile placed
\* inside the destination, and every destination pixel inside the part that
\* some tile contributes.
TilesPlaced(label_list, x_list, y_list, shapes) ==
    /\ Len(label_list) > 0
    /\ Len(x_list) = Len(label_list)
    /\ Len(y_list) = Len(label_list)
    /\ \A k \in 1..Len(label_list) :
          /\ x_list[k] >= 0 /\ x_list[k] + Height(label_list[k]) <= shapes[1]
          /\ y_list[k] >= 0 /\ y_list[k] + Width(label_list[k]) <= shapes[2]

\* the same check without the coverage of the destination
tiles_exactly_by_count(label_list, x_list, y_list, shapes, width_add, height_add) ==
    TilesPlaced(label_list, x_list, y_list, shapes)

tiles_exactly(label_list, x_list, y_list, shapes, width_add, height_add) ==
    /\ TilesPlaced(label_list, x_list, y_list, shapes)
    /\ \A r \in 1..shapes[1], c \in 1..shapes[2] :
          \E k \in 1..Len(label_list) :
              /\ r > x_list[k] + SkipRows(k, x_list, height_add)
              /\ r <= x_list[k] + Height(label_list[k])
              /\ c > y_list[k] + SkipCols(k, y_list, width_add)
              /\ c <= y_list[k] + Width(label_list[k])

\* ------------------------------------------- watershed_score's use of TileGrid
\* the same call without the overlap
cell_mask_split_no_overlap(cell_mask, deep_crop_size, ov) ==
    split(cell_mask, deep_crop_size, 0)

\* cell_mask_tile, x_list, y_list, mask_width_add, mask_height_add =
\*     utils.split(cell_mask, self.deep_crop_size)
cell_mask_split(cell_mask, deep_crop_size, ov) ==
    split(cell_mask, deep_crop_size, ov)

\* the image split into tiles one pixel larger
img_split_larger(img, deep_crop_size, ov) ==
    split(img, deep_crop_size + 1, ov)

\* img_tile, _, _, _, _ = utils.split(self.img_list[idx], self.deep_crop_size)
img_split(img, deep_crop_size, ov) ==
    split(img, deep_crop_size, ov)

\* the same call with the raster's two axes confused
post_mask_merge_swapped(post_mask_tile, sp, shape) ==
    merge(post_mask_tile, sp.y_list, sp.x_list, shape, sp.height_add, sp.width_add)

\* post_mask = utils.merge(post_mask_tile, x_list, y_list, cell_mask.shape,
\*                         width_add=mask_width_add, height_add=mask_height_add)
post_mask_merge(post_mask_tile, sp, shape) ==
    merge(post_mask_tile, sp.x_list, sp.y_list, shape, sp.width_add, sp.height_add)

\* ------------------------------------------------------------ RoiExtractor
\* Pixels are <<row, column>>, both from 1.
Pixels(img) == (1..Height(img)) \X (1..Width(img))
Foreground(mask) == {p \in Pixels(mask) : mask[p[1]][p[2]] # 0}

\* connectivity=2: the eight neighbours
Adjacent(p, q) ==
    /\ p # q
    /\ p[1] - q[1] \in {-1, 0, 1}
    /\ p[2] - q[2] \in {-1, 0, 1}

RECURSIVE Grow(_, _)
Grow(S, F) ==
    LET N == {q \in F \ S : \E p \in S : Adjacent(p, q)}
    IN  IF N = {} THEN S ELSE Grow(S \cup N, F)

FirstPixel(F) ==
    CHOOSE p \in F : \A q \in F : p[1] < q[1] \/ (p[1] = q[1] /\ p[2] <= q[2])

\* measure.label(tissue_mask, connectivity=2): the connected components, in
\* label order (the order in which a row-major scan meets them)
RECURSIVE Components(_)
Components(F) ==
    IF F = {} THEN <<>>
    ELSE LET comp == Grow({FirstPixel(F)}, F)
         IN  <<comp>> \o Components(F \ comp)

label_image(tissue_mask) == Components(Foreground(tissue_mask))

MinOf(S) == CHOOSE x \in S : \A y \in S : x <= y
MaxOf(S) == CHOOSE x \in S : \A y \in S : x >= y

\* regionprops' bbox: (min_row, min_col, max_row, max_col), 0-based, half-open
BBoxOf(comp) ==
    << MinOf({p[1] : p \in comp}) - 1, MinOf({p[2] : p \in comp}) - 1,
       MaxOf({p[1] : p \in comp}), MaxOf({p[2] : p \in comp}) >>

\* regionprops' image: the component's footprint inside its bounding box
FootprintOf(comp) ==
    LET b == BBoxOf(comp)
    IN  [i \in 1..(b[3] - b[1]) |->
            [j \in 1..(b[4] - b[2]) |->
                IF <<b[1] + i, b[2] + j>> \in comp THEN 1 ELSE 0]]

\* measure.regionprops(label_image, ...)
regionprops(comps) ==
    [k \in 1..Len(comps) |->
        [bbox |-> BBoxOf(comps[k]), image |-> FootprintOf(comps[k]),
         area |-> Cardinality(comps[k])]]

\* a policy that hands back the components it keeps in descending label order
filter_roi_reversed(props, min_area) ==
    LET kept == SelectSeq(props, LAMBDA tissue_tile : tissue_tile.area >= min_area)
    IN  [k \in 1..Len(kept) |-> kept[Len(kept) - k + 1]]

\* self.filter_roi(props): the region filter policy, a size threshold that
\* keeps the components of at least min_area pixels, in their order
filter_roi(props, min_area) ==
    SelectSeq(props, LAMBDA tissue_tile : tissue_tile.area >= min_area)

\* the whole bounding box set, in the place of the footprint added
AddFootprintBox(tissue_mask_filter, tissue_tile) ==
    LET bbox == tissue_tile.bbox
    IN  [r \in 1..Height(tissue_mask_filter) |->
            [c \in 1..Width(tissue_mask_filter) |->
                IF r > bbox[1] /\ r <= bbox[3] /\ c > bbox[2] /\ c <= bbox[4]
                THEN 1
                ELSE tissue_mask_filter[r][c]]]

\* tissue_mask_filter[bbox[0]: bbox[2], bbox[1]: bbox[3]] += tissue_tile['image']
AddFootprint(tissue_mask_filter, tissue_tile) ==
    LET bbox == tissue_tile.bbox
    IN  [r \in 1..Height(tissue_mask_filter) |->
            [c \in 1..Width(tissue_mask_filter) |->
                IF r > bbox[1] /\ r <= bbox[3] /\ c > bbox[2] /\ c <= bbox[4]
                THEN (tissue_mask_filter[r][c]
                        + tissue_tile.image[r - bbox[1]][c - bbox[2]]) % 256
                ELSE tissue_mask_filter[r][c]]]

RECURSIVE AddFootprints(_, _, _)
AddFootprints(tissue_mask_filter, filtered_props, k) ==
    IF k > Len(filtered_props) THEN tissue_mask_filter
    ELSE AddFootprints(AddFootprint(tissue_mask_filter, filtered_props[k]),
                       filtered_props, k + 1)

\* np.uint8(tissue_mask_filter > 0)
Positive(img) ==
    [r \in 1..Height(img) |-> [c \in 1..Width(img) |-> IF img[r][c] > 0 THEN 1 ELSE 0]]

\* One iteration of get_roi's loop: the tissue mask, region count and
\* bounding boxes of one image.
get_roi_one(mask, min_area) ==
    LET props == regionprops(label_image(mask))
        filtered_props == filter_roi(props, min_area)
    IN  [ tissue_mask |->
              IF Len(props) # Len(filtered_props)
              THEN Positive(AddFootprints(Zeros(Height(mask), Width(mask)),
                                          filtered_props, 1))
              ELSE mask,
          tissue_num  |-> Len(filtered_props),
          tissue_bbox |-> [k \in 1..Len(filtered_props) |-> filtered_props[k].bbox] ]

\* -------------------------------------------------------- TissueMaskFilter
\* np.add in the place of np.multiply
label_filter_added(label, mask, bbox) ==
    LET crop == Slice(mask, bbox[1], bbox[3], bbox[2], bbox[4])
    IN  [r \in 1..Height(label) |->
            [c \in 1..Width(label) |-> (label[r][c] + crop[r][c]) % 256]]

\* np.multiply(label[i], self.tissue_mask[idx][bbox[0]: bbox[2], bbox[1]: bbox[3]])
\*     .astype(np.uint8)
label_filter(label, mask, bbox) ==
    LET crop == Slice(mask, bbox[1], bbox[3], bbox[2], bbox[4])
    IN  [r \in 1..Height(label) |->
            [c \in 1..Width(label) |-> (label[r][c] * crop[r][c]) % 256]]

\* tissue_label_filter(self, tissue_cell_label)
tissue_label_filter_of(cell_label, masks, nums, bboxes) ==
    [idx \in 1..Len(cell_label) |->
        [i \in 1..nums[idx] |->
            label_filter(cell_label[idx][i], masks[idx], bboxes[idx][i])]]

\* ------------------------------------------------------------------ Mosaic
\* One region written to the canvas at its bounding box, overwriting.
MosaicRegion(canvas, label, bbox) ==
    [r \in 1..Height(canvas) |->
        [c \in 1..Width(canvas) |->
            IF r > bbox[1] /\ r <= bbox[3] /\ c > bbox[2] /\ c <= bbox[4]
            THEN label[r - bbox[1]][c - bbox[2]]
            ELSE canvas[r][c]]]

\* The regions written in the order given (a sequence of region indices).
RECURSIVE MosaicInOrder(_, _, _, _, _)
MosaicInOrder(canvas, order, k, label_list, bboxes) ==
    IF k > Len(order) THEN canvas
    ELSE MosaicInOrder(MosaicRegion(canvas, label_list[order[k]], bboxes[order[k]]),
                       order, k + 1, label_list, bboxes)

\* self.mosaic(tissue_cell_label_filter): one canvas per image, the regions
\* written in list order
mosaic(label_filter_lists, images, nums, bboxes) ==
    [idx \in 1..Len(label_filter_lists) |->
        MosaicInOrder(Zeros(Height(images[idx]), Width(images[idx])),
                      [i \in 1..nums[idx] |-> i], 1,
                      label_filter_lists[idx], bboxes[idx])]

\* ------------------------------------------------- inference collaborator
\* What cellInfer may return for a region: a label raster of the crop's
\* shape.  Three kinds of content: every pixel 1; every pixel its own
\* instance id; every pixel an id of more than 8 bits.
LabelKinds == {"ones", "ids", "wide"}
InferredLabel(kind, shape, bbox) ==
    [i \in 1..(bbox[3] - bbox[1]) |->
        [j \in 1..(bbox[4] - bbox[2]) |->
            LET id == (bbox[1] + i - 1) * shape[2] + bbox[2] + j
            IN  CASE kind = "ones" -> 1
                  [] kind = "ids"  -> id
                  [] kind = "wide" -> 250 + id]]

\* ---------------------------------------------------- post-processing pool
\* utils.split rejects a tile size or an overlap it cannot walk with
split_ok(cut_size, ov) == cut_size > 0 /\ ov >= 0 /\ ov < cut_size

\* What a worker computes for one [label tile, image tile] pair: the pair
\* (post label tile, score tile).  Score mode leaves the labels as they are;
\* watershed mode relabels them.  Both are functions of the pair alone.
ScoreOf(label, img) == IF label = 0 THEN 0 ELSE (img % 100) + 1
RelabelOf(label, img) == IF label = 0 THEN 0 ELSE ((label + img) % 255) + 1
grade_tile(water, pair) ==
    LET label == pair[1]
        img == pair[2]
    IN  << [r \in 1..Height(label) |-> [c \in 1..Width(label) |->
               IF water THEN RelabelOf(label[r][c], img[r][c]) ELSE label[r][c]]],
           [r \in 1..Height(label) |-> [c \in 1..Width(label) |->
               ScoreOf(label[r][c], img[r][c])]] >>

\* input_list = [[cell_mask_tile[id], img] for id, img in enumerate(img_tile)]
input_list_of(cell_mask_tile, img_tile) ==
    [id \in 1..Len(img_tile) |-> <<cell_mask_tile[id], img_tile[id]>>]

\* the label tiles taken from the list back to front
post_mask_tile_reversed(post_list_tile) ==
    [k \in 1..Len(post_list_tile) |-> post_list_tile[Len(post_list_tile) - k + 1][1]]

\* post_mask_tile = [label[0] for label in post_list_tile]
post_mask_tile(post_list_tile) ==
    [k \in 1..Len(post_list_tile) |-> post_list_tile[k][1]]

\* score_mask_tile = [label[1] for label in post_list_tile]
score_mask_tile(post_list_tile) ==
    [k \in 1..Len(post_list_tile) |-> post_list_tile[k][2]]

\* the results laid down in the order the tasks complete
result_slot_by_completion(i, order) == Len(order) + 1

\* the pool's map keeps the result of work unit i at position i of its list,
\* whatever the order the tasks complete in
result_slot(i, order) == i

\* grade.*_multi hands back a list although some task has not returned
post_list_returned_partly(status) ==
    /\ \A i \in 1..Len(status) : status[i] \in {"done", "failed"}
    /\ \E i \in 1..Len(status) : status[i] = "done"

\* post_list_tile = grade.watershed_multi(...) / grade.score_multi(...):
\* the call returns its list when every task has returned its result; any
\* exception of a task leaves watershed_score through this line
post_list_returned(status) ==
    \A i \in 1..Len(status) : status[i] # "failed"

\* the pool gives up waiting when the first task has ended
pool_joined_on_first(status) ==
    \E i \in 1..Len(status) : status[i] \in {"done", "failed"}

\* the pool's join: the coordinator waits until every task has ended
pool_joined(status) ==
    \A i \in 1..Len(status) : status[i] \in {"done", "failed"}

\* ------------------------------------------------------------ construction
\* the regions extracted from the images before their bit depth is settled
init_order_roi_first == <<"get_roi", "trans16to8">>

\* CellSegPipe.__init__, after the images and the tissue masks are read:
\* bit-depth normalization, then ROI extraction
init_order == <<"trans16to8", "get_roi">>

\* where the pipeline object is after a step of its constructor
InitAfter(step) == IF step = "trans16to8" THEN "normalized" ELSE "roi"

\* where it is when a step of its constructor begins, and when run() begins
InitBefore(step) == IF init_order[1] = step THEN "loaded" ELSE InitAfter(init_order[1])
run_entry == InitAfter(init_order[2])

\* utils.transfer_16bit_to_8bit: the high byte of every pixel
transfer_16bit_to_8bit(img) ==
    [r \in 1..Height(img) |-> [c \in 1..Width(img) |-> img[r][c] \div 256]]

\* the 16-bit image that an 8-bit raster is the conversion of
Widened(img) ==
    [r \in 1..Height(img) |-> [c \in 1..Width(img) |-> img[r][c] * 256 + (img[r][c] % 7)]]

\* =================================================================== state
VARIABLES
    t_pc,       \* TileGrid run: "loaded", "split", "merged"
    t_shape,    \* shape of the raster given to split
    t_cut,      \* tile_size
    t_ov,       \* overlap
    t_split,    \* what split returned: x_list, y_list, width_add, height_add
                \* (the tiles are windows onto the raster, kept by placement)
    t_dest,     \* what merge returned
    t_counted,  \* whether merge runs with the write counter
    t_writes    \* merge's per-pixel write counter

tileVars == <<t_pc, t_shape, t_cut, t_ov, t_split, t_dest, t_counted, t_writes>>

VARIABLES
    pc,                         \* where the pipeline object is in its life
    img_list,                   \* self.img_list: the images
    raw_tissue_mask,            \* the tissue masks as the collaborator made them
    tissue_mask,                \* self.tissue_mask
    min_area,                   \* the region filter policy's size threshold
    label_kinds,                \* what the inference collaborator may return
    tissue_num,                 \* self.tissue_num
    tissue_bbox,                \* self.tissue_bbox
    tissue_cell_label,          \* run's tissue_cell_label
    tissue_cell_label_filter,   \* run's tissue_cell_label_filter
    cell_mask                   \* run's cell_mask

roiVars == <<pc, img_list, raw_tissue_mask, tissue_mask, min_area, label_kinds,
             tissue_num, tissue_bbox, tissue_cell_label, tissue_cell_label_filter,
             cell_mask>>

VARIABLES
    img_dtype,                  \* element type of each image of img_list
    normalized                  \* how many images trans16to8 has gone through

loadVars == <<img_dtype, normalized>>

VARIABLES
    deep_crop_size,             \* self.deep_crop_size
    overlap,                    \* self.overlap
    post_processing_workers,    \* self.post_processing_workers
    is_water,                   \* self.is_water
    split_overlap,              \* the overlap utils.split takes when given none
    ws,                         \* watershed_score's locals for the current image
    post_mask_list,             \* self.post_mask_list
    score_mask_list,            \* self.score_mask_list
    saved,                      \* the files save_cell_mask wrote, by image
    tile_log,                   \* per image joined: how each tile task ended
    error                       \* the exception that ended the run, if any

cfgVars == <<deep_crop_size, overlap, post_processing_workers, is_water, split_overlap>>
postVars == <<ws, post_mask_list, score_mask_list, saved, tile_log, error>>

VARIABLES
    ms_names,       \* MSData._names
    ms_data_list,   \* MSData._data_list: the data objects, by identity
    ms_name_dict,   \* MSData._name_dict: name -> data object
    ms_idx,         \* how many default names the name generator has given
    ms_last         \* the last call on the MSData and the contents before it

msVars == <<ms_names, ms_data_list, ms_name_dict, ms_idx, ms_last>>

VARIABLES
    key_record,     \* StPipeline.key_record: key -> list of res_keys
    kr_last,        \* the arguments of the last reset_key_record call
    st_data,        \* the expression matrix of the object self.data refers to
    st_raw,         \* the expression matrix of the object self._raw refers to
    st_same,        \* whether self.data and self._raw refer to one object
    st_saved        \* the matrix the last raw_checkpoint saved

stVars == <<key_record, kr_last, st_data, st_raw, st_same, st_saved>>

VARIABLES
    ft_pc,          \* _fine_tune_parallel: "loop" or "returned"
    ft_times,       \* self.fine_tune_times
    ft_threshold,   \* self.fine_tune_threshold, in units of 0.05
    ft_first,       \* the candidate labels _fine_tune_parallel was given
    ft_labels,      \* labels
    ft_try_num,     \* try_num
    ft_rounds,      \* how many times _fine_tune_one_time has been called
    ft_result       \* what _fine_tune_parallel returned

ftVars == <<ft_pc, ft_times, ft_threshold, ft_first, ft_labels, ft_try_num, ft_rounds,
            ft_result>>

vars == <<tileVars, roiVars, loadVars, cfgVars, postVars, msVars, stVars, ftVars>>

\* the raster given to split, and the tiles split made of it
t_image == CoordRaster(t_shape[1], t_shape[2])
t_tiles == cell_mask_split(t_image, t_cut, t_ov).img_list

NoSplit == [x_list |-> <<>>, y_list |-> <<>>, width_add |-> 0, height_add |-> 0]

\* a specification's variables that it does not use
TileIdle ==
    /\ t_pc = "idle" /\ t_shape = <<0, 0>> /\ t_cut = 0 /\ t_ov = 0
    /\ t_split = NoSplit /\ t_dest = <<>> /\ t_counted = FALSE /\ t_writes = <<>>

NoWs == [idx |-> 0, sp |-> NoSplit, input_list |-> <<>>, status |-> <<>>,
         results |-> <<>>, order |-> <<>>]

PostIdle ==
    /\ ws = NoWs /\ post_mask_list = <<>> /\ score_mask_list = <<>>
    /\ saved = <<>> /\ tile_log = <<>> /\ error = "none"

NoCall == [op |-> "none"]
MsIdle ==
    /\ ms_names = <<>> /\ ms_data_list = <<>> /\ ms_name_dict = [n \in {} |-> 0]
    /\ ms_idx = 0 /\ ms_last = NoCall

StIdle ==
    /\ key_record = [k \in {} |-> <<>>] /\ kr_last = NoCall
    /\ st_data = <<>> /\ st_raw = <<>> /\ st_same = FALSE /\ st_saved = <<>>

FtIdle ==
    /\ ft_pc = "idle" /\ ft_times = 0 /\ ft_threshold = 0 /\ ft_first = <<>>
    /\ ft_labels = <<>> /\ ft_try_num = 0 /\ ft_rounds = 0 /\ ft_result = 0

RoiIdle ==
    /\ pc = "idle" /\ img_list = <<>> /\ raw_tissue_mask = <<>> /\ tissue_mask = <<>>
    /\ min_area = 0 /\ label_kinds = {} /\ tissue_num = <<>> /\ tissue_bbox = <<>>
    /\ tissue_cell_label = <<>> /\ tissue_cell_label_filter = <<>> /\ cell_mask = <<>>
    /\ deep_crop_size = 0 /\ overlap = 0 /\ post_processing_workers = 0
    /\ is_water = FALSE /\ split_overlap = 0
    /\ img_dtype = <<>> /\ normalized = 0
    /\ PostIdle

\* ------------------------------------------------- TileGrid: split, then merge
TileLoaded(h, w, c, o, counted) ==
    /\ t_pc = "loaded"
    /\ t_counted = counted
    /\ t_shape = <<h, w>>
    /\ t_cut = c
    /\ t_ov = o
    /\ t_split = NoSplit
    /\ t_dest = <<>>
    /\ t_writes = <<>>

\* every raster shape and every valid (tile_size, overlap) within the bounds,
\* tile sizes from 2 pixels (a tile of one pixel has no overlap to share)
TileInit ==
    /\ \E h \in 1..MaxDim, w \in 1..MaxDim, c \in 2..MaxTile, o \in 0..(MaxTile - 1) :
            o < c /\ TileLoaded(h, w, c, o, TRUE)
    /\ RoiIdle
    /\ MsIdle
    /\ StIdle
    /\ FtIdle

\* the 1000 x 1000 raster with tile_size 300 and overlap 20
ScenarioInit ==
    TileLoaded(1000, 1000, 300, 20, FALSE) /\ RoiIdle /\ MsIdle /\ StIdle /\ FtIdle

TileSplit ==
    /\ t_pc = "loaded"
    /\ LET sp == cell_mask_split(t_image, t_cut, t_ov)
       IN  t_split' = [x_list |-> sp.x_list, y_list |-> sp.y_list,
                       width_add |-> sp.width_add, height_add |-> sp.height_add]
    /\ t_pc' = "split"
    /\ UNCHANGED <<t_shape, t_cut, t_ov, t_dest, t_counted, t_writes>>
    /\ UNCHANGED <<roiVars, msVars, stVars, ftVars, loadVars, cfgVars, postVars>>

TileMerge ==
    /\ t_pc = "split"
    /\ t_dest' = post_mask_merge(t_tiles, t_split, t_shape)
    /\ t_writes' = IF t_counted
                   THEN MergeWrites(t_tiles, t_split.x_list, t_split.y_list, t_shape,
                                    t_split.width_add, t_split.height_add)
                   ELSE <<>>
    /\ t_pc' = "merged"
    /\ UNCHANGED <<t_shape, t_cut, t_ov, t_split, t_counted>>
    /\ UNCHANGED <<roiVars, msVars, stVars, ftVars, loadVars, cfgVars, postVars>>

TileNext == TileSplit \/ TileMerge

SpecTile == TileInit /\ [][TileNext]_vars
SpecScenario == (TileInit \/ ScenarioInit) /\ [][TileNext]_vars

\* ------------------------------------- TileGrid: merge of what does not fit
\* Between split and merge the recorded placement is damaged: the last
\* placement is lost, one tile's origin is moved by a pixel, or the recorded
\* height_add / width_add is off by one.
TileDamage ==
    /\ t_pc = "split"
    /\ \/ t_split' = [t_split EXCEPT
                         !.x_list = SubSeq(t_split.x_list, 1, Len(t_split.x_list) - 1),
                         !.y_list = SubSeq(t_split.y_list, 1, Len(t_split.y_list) - 1)]
       \/ \E k \in 1..Len(t_split.x_list), d \in {-1, 1} :
             \/ t_split' = [t_split EXCEPT !.x_list[k] = @ + d]
             \/ t_split' = [t_split EXCEPT !.y_list[k] = @ + d]
       \/ t_split' = [t_split EXCEPT !.height_add = @ + 1]
       \/ t_split' = [t_split EXCEPT !.width_add = @ + 1]
    /\ t_pc' = "damaged"
    /\ UNCHANGED <<t_shape, t_cut, t_ov, t_dest, t_counted, t_writes>>
    /\ UNCHANGED <<roiVars, msVars, stVars, ftVars, loadVars, cfgVars, postVars>>

\* merge with its check: the raster, or a structural error and no raster
TileMergeChecked ==
    /\ t_pc \in {"split", "damaged"}
    /\ LET tiles == t_tiles
       IN  IF tiles_exactly(tiles, t_split.x_list, t_split.y_list, t_shape,
                            t_split.width_add, t_split.height_add)
           THEN /\ t_dest' = post_mask_merge(tiles, t_split, t_shape)
                /\ t_pc' = IF t_pc = "split" THEN "merged" ELSE "merged_damaged"
           ELSE /\ t_dest' = <<>>
                /\ t_pc' = "structural_error"
    /\ UNCHANGED <<t_shape, t_cut, t_ov, t_split, t_counted, t_writes>>
    /\ UNCHANGED <<roiVars, msVars, stVars, ftVars, loadVars, cfgVars, postVars>>

MergeNext == TileSplit \/ TileDamage \/ TileMergeChecked

SpecMerge == TileInit /\ [][MergeNext]_vars

\* ------------------------------------- the pipeline object up to the mosaic
\* Binary rasters of a shape.
Masks(h, w) == [1..h -> [1..w -> {0, 1}]]

\* after construction up to get_roi: one image, its tissue mask, no regions yet
RoiLoaded(imgs, masks, n, kinds) ==
    /\ img_list = imgs
    /\ raw_tissue_mask = masks
    /\ tissue_mask = masks
    /\ min_area = n
    /\ label_kinds = kinds
    /\ tissue_num = <<>>
    /\ tissue_bbox = <<>>
    /\ tissue_cell_label = <<>>
    /\ tissue_cell_label_filter = <<>>
    /\ cell_mask = <<>>

\* every tissue mask of 3 rows and up to MaxMaskCols columns, every threshold
RoiInit ==
    /\ \E w \in 1..MaxMaskCols, n \in 1..MaxMinArea :
          \E mask \in Masks(3, w) :
              RoiLoaded(<<CoordRaster(3, w)>>, <<mask>>, n, LabelKinds)
    /\ pc = InitBefore("get_roi")
    /\ img_dtype = <<"uint8">> /\ normalized = 1
    /\ deep_crop_size = 0 /\ overlap = 0 /\ post_processing_workers = 0
    /\ is_water = FALSE /\ split_overlap = 0
    /\ PostIdle
    /\ TileIdle
    /\ MsIdle
    /\ StIdle
    /\ FtIdle

\* get_roi(self)
get_roi ==
    /\ pc = InitBefore("get_roi")
    /\ LET roi == [idx \in 1..Len(tissue_mask) |-> get_roi_one(tissue_mask[idx], min_area)]
       IN  /\ tissue_mask' = [idx \in 1..Len(tissue_mask) |-> roi[idx].tissue_mask]
           /\ tissue_num' = tissue_num \o [idx \in 1..Len(tissue_mask) |-> roi[idx].tissue_num]
           /\ tissue_bbox' = tissue_bbox \o [idx \in 1..Len(tissue_mask) |-> roi[idx].tissue_bbox]
    /\ pc' = InitAfter("get_roi")
    /\ UNCHANGED <<img_list, raw_tissue_mask, min_area, label_kinds, tissue_cell_label,
                   tissue_cell_label_filter, cell_mask>>
    /\ UNCHANGED <<tileVars, msVars, stVars, ftVars, loadVars, cfgVars, postVars>>

\* run(): self.get_img_filter()
get_img_filter ==
    /\ pc = run_entry
    /\ pc' = "infer"
    /\ UNCHANGED <<img_list, raw_tissue_mask, tissue_mask, min_area, label_kinds, tissue_num,
                   tissue_bbox, tissue_cell_label, tissue_cell_label_filter, cell_mask>>
    /\ UNCHANGED <<tileVars, msVars, stVars, ftVars, loadVars, cfgVars, postVars>>

\* tissue_cell_infer: one iteration of its loop, the inference of the next
\* image's regions; after the last image the list is returned to run().
tissue_cell_infer ==
    /\ pc = "infer"
    /\ LET idx == Len(tissue_cell_label) + 1
           img == img_list[idx]
       IN  /\ \E kind \in label_kinds :
                 tissue_cell_label' = Append(tissue_cell_label,
                     [i \in 1..Len(tissue_bbox[idx]) |->
                         InferredLabel(kind, <<Height(img), Width(img)>>, tissue_bbox[idx][i])])
           /\ pc' = IF idx = Len(img_list) THEN "inferred" ELSE "infer"
    /\ UNCHANGED <<img_list, raw_tissue_mask, tissue_mask, min_area, label_kinds, tissue_num,
                   tissue_bbox, tissue_cell_label_filter, cell_mask>>
    /\ UNCHANGED <<tileVars, msVars, stVars, ftVars, loadVars, cfgVars, postVars>>

\* run(): tissue_cell_label_filter = self.tissue_label_filter(tissue_cell_label)
tissue_label_filter ==
    /\ pc = "inferred"
    /\ tissue_cell_label_filter' =
           tissue_label_filter_of(tissue_cell_label, tissue_mask, tissue_num, tissue_bbox)
    /\ pc' = "filtered"
    /\ UNCHANGED <<img_list, raw_tissue_mask, tissue_mask, min_area, label_kinds, tissue_num,
                   tissue_bbox, tissue_cell_label, cell_mask>>
    /\ UNCHANGED <<tileVars, msVars, stVars, ftVars, loadVars, cfgVars, postVars>>

\* what run() hands to mosaic: the unfiltered labels
mosaic_input_unfiltered == tissue_cell_label

\* what run() hands to mosaic
mosaic_input == tissue_cell_label_filter

\* run(): cell_mask = self.mosaic(tissue_cell_label_filter)
run_mosaic ==
    /\ pc = "filtered"
    /\ cell_mask' = mosaic(mosaic_input, img_list, tissue_num, tissue_bbox)
    /\ pc' = "mosaicked"
    /\ UNCHANGED <<img_list, raw_tissue_mask, tissue_mask, min_area, label_kinds, tissue_num,
                   tissue_bbox, tissue_cell_label, tissue_cell_label_filter>>
    /\ UNCHANGED <<tileVars, msVars, stVars, ftVars, loadVars, cfgVars, postVars>>

RoiNext ==
    \/ get_roi
    \/ get_img_filter
    \/ tissue_cell_infer
    \/ tissue_label_filter
    \/ run_mosaic

SpecRoi == RoiInit /\ [][RoiNext]_vars

\* --------------------------------------------------- the whole pipeline run
\* watershed_score: the next image of its loop is split, label raster and
\* image alike, and the work units are paired.
watershed_split ==
    /\ pc \in {"mosaicked", "next_image"}
    /\ LET idx == IF pc = "mosaicked" THEN 1 ELSE ws.idx + 1
       IN  IF split_ok(deep_crop_size, split_overlap)
           THEN LET sp == cell_mask_split(cell_mask[idx], deep_crop_size, split_overlap)
                    img_tile == img_split(img_list[idx], deep_crop_size, split_overlap).img_list
                IN  /\ ws' = [idx |-> idx,
                              sp |-> [x_list |-> sp.x_list, y_list |-> sp.y_list,
                                      width_add |-> sp.width_add,
                                      height_add |-> sp.height_add],
                              input_list |-> input_list_of(sp.img_list, img_tile),
                              status |-> <<>>, results |-> <<>>, order |-> <<>>]
                    /\ pc' = "pool"
                    /\ UNCHANGED error
           ELSE /\ ws' = [ws EXCEPT !.idx = idx]
                /\ error' = [kind |-> "configuration", idx |-> idx]
                /\ pc' = "failed"
    /\ UNCHANGED <<img_list, raw_tissue_mask, tissue_mask, min_area, label_kinds, tissue_num,
                   tissue_bbox, tissue_cell_label, tissue_cell_label_filter, cell_mask>>
    /\ UNCHANGED <<post_mask_list, score_mask_list, saved, tile_log>>
    /\ UNCHANGED <<tileVars, msVars, stVars, ftVars, loadVars, cfgVars>>

\* grade.watershed_multi / grade.score_multi(input_list, workers): the pool is
\* made and every work unit queued; a pool of no worker is refused.
grade_multi ==
    /\ pc = "pool"
    /\ IF post_processing_workers >= 1
       THEN /\ ws' = [ws EXCEPT !.status = [i \in 1..Len(ws.input_list) |-> "queued"],
                                !.results = [i \in 1..Len(ws.input_list) |-> <<>>]]
            /\ pc' = "tasks"
            /\ UNCHANGED error
       ELSE /\ error' = [kind |-> "configuration", idx |-> ws.idx]
            /\ pc' = "failed"
            /\ UNCHANGED ws
    /\ UNCHANGED <<img_list, raw_tissue_mask, tissue_mask, min_area, label_kinds, tissue_num,
                   tissue_bbox, tissue_cell_label, tissue_cell_label_filter, cell_mask>>
    /\ UNCHANGED <<post_mask_list, score_mask_list, saved, tile_log>>
    /\ UNCHANGED <<tileVars, msVars, stVars, ftVars, loadVars, cfgVars>>

Running == {i \in 1..Len(ws.status) : ws.status[i] = "running"}

\* a pool that starts a work unit whether or not a worker is free
worker_free_always(running, workers) == TRUE

\* the pool has workers processes: a work unit starts when one of them is free
worker_free(running, workers) == Cardinality(running) < workers

\* a free worker takes the next work unit of the queue
task_start ==
    /\ pc = "tasks"
    /\ worker_free(Running, post_processing_workers)
    /\ \E i \in 1..Len(ws.status) :
          /\ ws.status[i] = "queued"
          /\ \A j \in 1..(i - 1) : ws.status[j] # "queued"
          /\ ws' = [ws EXCEPT !.status[i] = "running"]
    /\ UNCHANGED <<pc, img_list, raw_tissue_mask, tissue_mask, min_area, label_kinds,
                   tissue_num, tissue_bbox, tissue_cell_label, tissue_cell_label_filter,
                   cell_mask>>
    /\ UNCHANGED <<post_mask_list, score_mask_list, saved, tile_log, error>>
    /\ UNCHANGED <<tileVars, msVars, stVars, ftVars, loadVars, cfgVars>>

\* a worker returns the result of its work unit, kept under the unit's index
task_done ==
    /\ pc = "tasks"
    /\ \E i \in Running :
          ws' = [ws EXCEPT !.status[i] = "done",
                           !.results[result_slot(i, ws.order)] =
                                  grade_tile(is_water, ws.input_list[i]),
                           !.order = Append(ws.order, i)]
    /\ UNCHANGED <<pc, img_list, raw_tissue_mask, tissue_mask, min_area, label_kinds,
                   tissue_num, tissue_bbox, tissue_cell_label, tissue_cell_label_filter,
                   cell_mask>>
    /\ UNCHANGED <<post_mask_list, score_mask_list, saved, tile_log, error>>
    /\ UNCHANGED <<tileVars, msVars, stVars, ftVars, loadVars, cfgVars>>

\* a worker's task raises
task_fail ==
    /\ pc = "tasks"
    /\ \E i \in Running :
          ws' = [ws EXCEPT !.status[i] = "failed", !.order = Append(ws.order, i)]
    /\ UNCHANGED <<pc, img_list, raw_tissue_mask, tissue_mask, min_area, label_kinds,
                   tissue_num, tissue_bbox, tissue_cell_label, tissue_cell_label_filter,
                   cell_mask>>
    /\ UNCHANGED <<post_mask_list, score_mask_list, saved, tile_log, error>>
    /\ UNCHANGED <<tileVars, msVars, stVars, ftVars, loadVars, cfgVars>>

\* the pool is joined when every task has ended: the list of results comes
\* back to watershed_score, or the exception of a failed task does
pool_join ==
    /\ pc = "tasks"
    /\ pool_joined(ws.status)
    /\ tile_log' = Append(tile_log, ws.status)
    /\ IF post_list_returned(ws.status)
       THEN pc' = "merge" /\ UNCHANGED error
       ELSE pc' = "failed" /\ error' = [kind |-> "worker", idx |-> ws.idx]
    /\ UNCHANGED <<img_list, raw_tissue_mask, tissue_mask, min_area, label_kinds, tissue_num,
                   tissue_bbox, tissue_cell_label, tissue_cell_label_filter, cell_mask>>
    /\ UNCHANGED <<ws, post_mask_list, score_mask_list, saved>>
    /\ UNCHANGED <<tileVars, msVars, stVars, ftVars, loadVars, cfgVars>>

\* the result of a task that returned none: an empty (all zero) tile pair
ResultOrBlank(i) ==
    IF ws.status[i] = "done" THEN ws.results[i]
    ELSE << Zeros(Height(ws.input_list[i][1]), Width(ws.input_list[i][1])),
            Zeros(Height(ws.input_list[i][1]), Width(ws.input_list[i][1])) >>

\* watershed_score: the two channels are merged and appended
watershed_merge ==
    /\ pc = "merge"
    /\ LET post_list_tile == [i \in 1..Len(ws.results) |-> ResultOrBlank(i)]
           shape == <<Height(cell_mask[ws.idx]), Width(cell_mask[ws.idx])>>
       IN  /\ post_mask_list' = Append(post_mask_list,
                   post_mask_merge(post_mask_tile(post_list_tile), ws.sp, shape))
           /\ score_mask_list' = Append(score_mask_list,
                   post_mask_merge(score_mask_tile(post_list_tile), ws.sp, shape))
    /\ pc' = IF ws.idx = Len(cell_mask) THEN "postprocessed" ELSE "next_image"
    /\ UNCHANGED <<img_list, raw_tissue_mask, tissue_mask, min_area, label_kinds, tissue_num,
                   tissue_bbox, tissue_cell_label, tissue_cell_label_filter, cell_mask>>
    /\ UNCHANGED <<ws, saved, tile_log, error>>
    /\ UNCHANGED <<tileVars, msVars, stVars, ftVars, loadVars, cfgVars>>

\* save_cell_mask: the score and the mask of every file are written
save_cell_mask ==
    /\ pc = "postprocessed"
    /\ saved' = [idx \in 1..Len(img_list) |->
                    [score |-> score_mask_list[idx], mask |-> post_mask_list[idx]]]
    /\ pc' = "saved"
    /\ UNCHANGED <<img_list, raw_tissue_mask, tissue_mask, min_area, label_kinds, tissue_num,
                   tissue_bbox, tissue_cell_label, tissue_cell_label_filter, cell_mask>>
    /\ UNCHANGED <<ws, post_mask_list, score_mask_list, tile_log, error>>
    /\ UNCHANGED <<tileVars, msVars, stVars, ftVars, loadVars, cfgVars>>

\* tissue_cell_infer: cellInfer raises for the next image
tissue_cell_infer_raises ==
    /\ pc = "infer"
    /\ error' = [kind |-> "collaborator", idx |-> Len(tissue_cell_label) + 1]
    /\ pc' = "failed"
    /\ UNCHANGED <<img_list, raw_tissue_mask, tissue_mask, min_area, label_kinds, tissue_num,
                   tissue_bbox, tissue_cell_label, tissue_cell_label_filter, cell_mask>>
    /\ UNCHANGED <<ws, post_mask_list, score_mask_list, saved, tile_log>>
    /\ UNCHANGED <<tileVars, msVars, stVars, ftVars, loadVars, cfgVars>>

\* cell_seg(...): flag = 0, the pipeline object is made of the arguments as
\* they are given, and run
cell_seg ==
    /\ pc = "called"
    /\ is_water' = FALSE
    /\ pc' = "loaded"
    /\ UNCHANGED <<img_list, raw_tissue_mask, tissue_mask, min_area, label_kinds, tissue_num,
                   tissue_bbox, tissue_cell_label, tissue_cell_label_filter, cell_mask>>
    /\ UNCHANGED <<deep_crop_size, overlap, post_processing_workers, split_overlap>>
    /\ UNCHANGED <<tileVars, msVars, stVars, ftVars, loadVars, postVars>>

\* trans16to8(self): every image that is not 8-bit is replaced by its 8-bit
\* conversion; an image that is neither 8-bit nor 16-bit stops the loop
Dtypes == {"uint8", "uint16", "float32"}
BadDtype == {idx \in 1..Len(img_dtype) : img_dtype[idx] \notin {"uint16", "uint8"}}
FirstBadDtype == CHOOSE idx \in BadDtype : \A j \in BadDtype : idx <= j
\* every image converted, the 8-bit ones too
needs_transfer_always(dtype) == TRUE
\* if img.dtype != 'uint8'
needs_transfer(dtype) == dtype # "uint8"
trans16to8 ==
    /\ pc = InitBefore("trans16to8")
    /\ LET last == IF BadDtype = {} THEN Len(img_list) ELSE FirstBadDtype - 1
       IN  /\ img_list' = [idx \in 1..Len(img_list) |->
                  IF idx <= last /\ needs_transfer(img_dtype[idx])
                  THEN transfer_16bit_to_8bit(img_list[idx]) ELSE img_list[idx]]
           /\ img_dtype' = [idx \in 1..Len(img_dtype) |->
                  IF idx <= last THEN "uint8" ELSE img_dtype[idx]]
           /\ normalized' = last
           /\ IF BadDtype = {}
              THEN pc' = InitAfter("trans16to8") /\ UNCHANGED error
              ELSE pc' = "failed" /\ error' = [kind |-> "assertion", idx |-> last + 1]
    /\ UNCHANGED <<raw_tissue_mask, tissue_mask, min_area, label_kinds, tissue_num,
                   tissue_bbox, tissue_cell_label, tissue_cell_label_filter, cell_mask>>
    /\ UNCHANGED <<ws, post_mask_list, score_mask_list, saved, tile_log>>
    /\ UNCHANGED <<tileVars, msVars, stVars, ftVars, cfgVars>>

\* The images of the batch runs, each with its tissue mask: a 2 x 3 image of
\* two tissue components and a 3 x 3 image of an L-shaped component and a
\* single pixel.
ImageCases ==
    { [img |-> CoordRaster(2, 3), mask |-> << <<1, 0, 1>>, <<1, 0, 0>> >>],
      [img |-> CoordRaster(3, 3), mask |-> << <<1, 0, 1>>, <<1, 0, 0>>, <<1, 1, 1>> >>] }
Batches == UNION {[1..n -> ImageCases] : n \in 1..MaxImages}
CropSizes == {0} \cup (2..MaxTile)
Overlaps == {1, MaxTile}
MinAreas == {2}
PipeKinds == LabelKinds \ {"ones"}

\* a call of cell_seg, or a pipeline object made in watershed mode, with any
\* configuration, valid or not
PipeInit ==
    /\ \E batch \in Batches, n \in MinAreas, kind \in PipeKinds :
          \E dtypes \in [1..Len(batch) -> Dtypes] :
              /\ RoiLoaded([i \in 1..Len(batch) |->
                               IF dtypes[i] = "uint16" THEN Widened(batch[i].img)
                               ELSE batch[i].img],
                           [i \in 1..Len(batch) |-> batch[i].mask], n, {kind})
              /\ img_dtype = dtypes
    /\ normalized = 0
    /\ deep_crop_size \in CropSizes
    /\ overlap \in Overlaps
    /\ post_processing_workers \in 0..MaxWorkers
    /\ split_overlap \in {0, 1}
    /\ \/ pc = "called" /\ is_water = FALSE
       \/ pc = "loaded" /\ is_water = TRUE
    /\ PostIdle
    /\ TileIdle
    /\ MsIdle
    /\ StIdle
    /\ FtIdle

Next ==
    \/ cell_seg
    \/ trans16to8
    \/ get_roi
    \/ get_img_filter
    \/ tissue_cell_infer
    \/ tissue_cell_infer_raises
    \/ tissue_label_filter
    \/ run_mosaic
    \/ watershed_split
    \/ grade_multi
    \/ task_start
    \/ task_done
    \/ task_fail
    \/ pool_join
    \/ watershed_merge
    \/ save_cell_mask

Spec == PipeInit /\ [][Next]_vars

\* --------------------------------------- calls repeated on one pipeline object
\* get_roi(self) called once more on the object: the loop appends again
get_roi_again ==
    /\ pc = run_entry
    /\ Len(tissue_num) >= Len(img_list)
    /\ Len(tissue_num) < MaxRuns * Len(img_list)
    /\ LET roi == [idx \in 1..Len(tissue_mask) |-> get_roi_one(tissue_mask[idx], min_area)]
       IN  /\ tissue_mask' = [idx \in 1..Len(tissue_mask) |-> roi[idx].tissue_mask]
           /\ tissue_num' = tissue_num \o [idx \in 1..Len(tissue_mask) |-> roi[idx].tissue_num]
           /\ tissue_bbox' = tissue_bbox \o [idx \in 1..Len(tissue_mask) |-> roi[idx].tissue_bbox]
    /\ UNCHANGED <<pc, img_list, raw_tissue_mask, min_area, label_kinds, tissue_cell_label,
                   tissue_cell_label_filter, cell_mask>>
    /\ UNCHANGED <<tileVars, msVars, stVars, ftVars, loadVars, cfgVars, postVars>>

\* run(self) called once more on the object after it has returned: its
\* locals are new, the object's lists are as the last run left them
run_again ==
    /\ pc = "saved"
    /\ Len(post_mask_list) < MaxRuns * Len(img_list)
    /\ pc' = run_entry
    /\ tissue_cell_label' = <<>>
    /\ tissue_cell_label_filter' = <<>>
    /\ cell_mask' = <<>>
    /\ ws' = NoWs
    /\ UNCHANGED <<img_list, raw_tissue_mask, tissue_mask, min_area, label_kinds, tissue_num,
                   tissue_bbox>>
    /\ UNCHANGED <<post_mask_list, score_mask_list, saved, tile_log, error>>
    /\ UNCHANGED <<tileVars, msVars, stVars, ftVars, loadVars, cfgVars>>

RerunNext ==
    \/ Next
    \/ get_roi_again
    \/ run_again

SpecRerun == PipeInit /\ [][RerunNext]_vars

\* ------------------------------------------------------------------ MSData
\* The multi-slice container that tests/test_ms_data.py exercises.  Data
\* objects are told apart by identity only; a name is a string.
DataObjects == 1..MaxSlices
GivenNames == {"a", "c"}
NewNames == {"100", "101"}

\* the default name the generator gives after idx earlier ones: '0', '1', ...
auto_key_from_one(idx) == ToString(idx + 1)
auto_key(idx) == ToString(idx)

\* list.remove(x): the list without its first x
RECURSIVE list_remove(_, _)
list_remove(list, x) ==
    IF list = <<>> THEN <<>>
    ELSE IF Head(list) = x THEN Tail(list)
    ELSE <<Head(list)>> \o list_remove(Tail(list), x)

\* the list without its last entry
data_list_without_last(data_list, obj) == SubSeq(data_list, 1, Len(data_list) - 1)

\* del_data: self._data_list without the object deleted
data_list_without(data_list, obj) == list_remove(data_list, obj)

\* the dict left as it is
name_dict_kept(name_dict, name) == name_dict

\* dict.pop(name)
name_dict_pop(name_dict, name) ==
    [n \in (DOMAIN name_dict) \ {name} |-> name_dict[n]]

\* the name -> object dict of a list of names and a list of objects
name_dict_of(names, data_list) ==
    [n \in {names[i] : i \in 1..Len(names)} |->
        data_list[CHOOSE i \in 1..Len(names) : names[i] = n]]

\* names filled up with default names to the length of the data list
RECURSIVE names_filled(_, _, _)
names_filled(names, idx, n) ==
    IF Len(names) >= n THEN names
    ELSE names_filled(Append(names, auto_key(idx)), idx + 1, n)

SeqRange(list) == {list[i] : i \in 1..Len(list)}
Before == [names |-> ms_names, data_list |-> ms_data_list, name_dict |-> ms_name_dict]

\* MSData(_data_list=..., _names=...): names missing for the later objects
\* are default names
MsInit ==
    /\ \E n \in 0..2, k \in 0..2 :
          /\ k <= n
          /\ \E given \in [1..k -> GivenNames] :
                /\ \A i, j \in 1..k : i # j => given[i] # given[j]
                /\ ms_data_list = [i \in 1..n |-> i]
                /\ ms_names = names_filled(given, 0, n)
                /\ ms_idx = n - k
    /\ ms_name_dict = name_dict_of(ms_names, ms_data_list)
    /\ ms_last = [op |-> "init"]
    /\ TileIdle
    /\ RoiIdle
    /\ StIdle
    /\ FtIdle

\* add_data(data, name=None): a new object under a name not in use, the
\* generator's next default name when none is given
add_data ==
    /\ Len(ms_data_list) < MaxSlices
    /\ \E obj \in DataObjects \ SeqRange(ms_data_list), given \in GivenNames \cup {"None"} :
          LET name == IF given = "None" THEN auto_key(ms_idx) ELSE given
          IN  /\ name \notin SeqRange(ms_names)
              /\ given = "None" => ms_idx < MaxKeys
              /\ ms_names' = Append(ms_names, name)
              /\ ms_data_list' = Append(ms_data_list, obj)
              /\ ms_name_dict' = [n \in DOMAIN ms_name_dict \cup {name} |->
                                     IF n = name THEN obj ELSE ms_name_dict[n]]
              /\ ms_idx' = IF given = "None" THEN ms_idx + 1 ELSE ms_idx
              /\ ms_last' = [op |-> "add_data", name |-> given, obj |-> obj,
                             before |-> Before]
    /\ UNCHANGED <<tileVars, roiVars, loadVars, cfgVars, postVars, stVars, ftVars>>

\* del_data(name) of a name in the collection
del_data ==
    /\ \E name \in SeqRange(ms_names) :
          LET obj == ms_name_dict[name]
          IN  /\ ms_name_dict' = name_dict_pop(ms_name_dict, name)
              /\ ms_names' = list_remove(ms_names, name)
              /\ ms_data_list' = data_list_without(ms_data_list, obj)
              /\ ms_last' = [op |-> "del_data", name |-> name, obj |-> obj,
                             before |-> Before]
    /\ UNCHANGED ms_idx
    /\ UNCHANGED <<tileVars, roiVars, loadVars, cfgVars, postVars, stVars, ftVars>>

\* rename(mapper): names in the collection to new names, all different and
\* none in use
rename ==
    /\ \E olds \in (SUBSET SeqRange(ms_names)) \ {{}} :
          \E mapper \in [olds -> NewNames] :
              /\ \A o1, o2 \in olds : o1 # o2 => mapper[o1] # mapper[o2]
              /\ \A o \in olds : mapper[o] \notin SeqRange(ms_names)
              /\ ms_names' = [i \in 1..Len(ms_names) |->
                                 IF ms_names[i] \in olds THEN mapper[ms_names[i]]
                                 ELSE ms_names[i]]
              /\ ms_name_dict' =
                    [n \in ((DOMAIN ms_name_dict) \ olds) \cup {mapper[o] : o \in olds} |->
                        IF n \in DOMAIN ms_name_dict /\ n \notin olds
                        THEN ms_name_dict[n]
                        ELSE ms_name_dict[CHOOSE o \in olds : mapper[o] = n]]
              /\ ms_last' = [op |-> "rename", mapper |-> mapper, before |-> Before]
    /\ UNCHANGED <<ms_data_list, ms_idx>>
    /\ UNCHANGED <<tileVars, roiVars, loadVars, cfgVars, postVars, stVars, ftVars>>

\* reset_name(): the generator starts again and names every entry anew
reset_name ==
    /\ ms_names' = names_filled(<<>>, 0, Len(ms_data_list))
    /\ ms_name_dict' = name_dict_of(ms_names', ms_data_list)
    /\ ms_idx' = Len(ms_data_list)
    /\ ms_last' = [op |-> "reset_name", before |-> Before]
    /\ UNCHANGED ms_data_list
    /\ UNCHANGED <<tileVars, roiVars, loadVars, cfgVars, postVars, stVars, ftVars>>

MsNext == add_data \/ del_data \/ rename \/ reset_name

SpecMs == MsInit /\ [][MsNext]_vars

\* -------------------------------------------------- StPipeline.key_record
\* the keys __init__ gives key_record, the keys the calls below are made
\* with (two known to __init__, one not) and the res_keys they record
InitKeys == {"hvg", "pca", "neighbors", "umap", "cluster", "marker_genes"}
CalledKeys == {"pca", "cluster", "sct"}
ResKeys == {"r1", "r2", "r3"}

\* the res_key appended whether or not the list holds it
key_list_appended(list, res_key) == Append(list, res_key)

\* if res_key in self.key_record[key]: self.key_record[key].remove(res_key)
\* self.key_record[key].append(res_key)
key_list_reset(list, res_key) ==
    Append(IF res_key \in SeqRange(list) THEN list_remove(list, res_key) ELSE list,
           res_key)

\* StPipeline.__init__: every known key with an empty list
KeysInit ==
    /\ key_record = [k \in InitKeys |-> <<>>]
    /\ kr_last = [op |-> "init"]
    /\ st_data = <<>> /\ st_raw = <<>> /\ st_same = FALSE /\ st_saved = <<>>
    /\ TileIdle
    /\ RoiIdle
    /\ MsIdle
    /\ FtIdle

\* reset_key_record(self, key, res_key)
reset_key_record ==
    /\ \E key \in CalledKeys, res_key \in ResKeys :
          /\ key_record' =
                IF key \in DOMAIN key_record
                THEN [key_record EXCEPT ![key] = key_list_reset(@, res_key)]
                ELSE [k \in DOMAIN key_record \cup {key} |->
                         IF k = key THEN <<res_key>> ELSE key_record[k]]
          /\ kr_last' = [op |-> "reset_key_record", key |-> key, res_key |-> res_key,
                         before |-> key_record]
    /\ UNCHANGED <<st_data, st_raw, st_same, st_saved>>
    /\ UNCHANGED <<tileVars, roiVars, loadVars, cfgVars, postVars, msVars, ftVars>>

KeysNext == reset_key_record

SpecKeys == KeysInit /\ [][KeysNext]_vars

\* ------------------------------------------------- StPipeline.raw and data
\* An expression matrix is the sequence of the operations applied to the
\* matrix the data was read with; a reference that is None has none.
InplaceOps == {"log1p", "normalize_total", "scale"}
NoneObj == <<"None">>

\* copy.deepcopy(value): a new object of the same contents
deepcopy(value) == value

\* StPipeline.__init__(data): self.data = data, self._raw = None
RawInit ==
    /\ st_data = <<>>
    /\ st_raw = NoneObj
    /\ st_same = FALSE
    /\ st_saved = NoneObj
    /\ key_record = [k \in {} |-> <<>>] /\ kr_last = NoCall
    /\ TileIdle
    /\ RoiIdle
    /\ MsIdle
    /\ FtIdle

\* raw_checkpoint(self): self.raw = self.data, the setter keeps a deep copy
raw_checkpoint ==
    /\ st_raw' = deepcopy(st_data)
    /\ st_same' = FALSE
    /\ st_saved' = st_data
    /\ UNCHANGED <<st_data, key_record, kr_last>>
    /\ UNCHANGED <<tileVars, roiVars, loadVars, cfgVars, postVars, msVars, ftVars>>

\* reset_raw_data(self): self.data = self.raw, the object self._raw refers to
reset_raw_data ==
    /\ st_data' = st_raw
    /\ st_same' = TRUE
    /\ UNCHANGED <<st_raw, st_saved, key_record, kr_last>>
    /\ UNCHANGED <<tileVars, roiVars, loadVars, cfgVars, postVars, msVars, ftVars>>

\* log1p / normalize_total / scale with inplace=True:
\* self.data.exp_matrix = op(self.data.exp_matrix), an assignment to the
\* object self.data refers to
inplace_op ==
    /\ st_data # NoneObj
    /\ Len(st_data) < MaxOps
    /\ \E op \in InplaceOps :
          /\ st_data' = Append(st_data, op)
          /\ st_raw' = IF st_same THEN Append(st_data, op) ELSE st_raw
    /\ UNCHANGED <<st_same, st_saved, key_record, kr_last>>
    /\ UNCHANGED <<tileVars, roiVars, loadVars, cfgVars, postVars, msVars, ftVars>>

RawNext ==
    \/ raw_checkpoint
    \/ reset_raw_data
    \/ inplace_op

SpecRaw == RawInit /\ [][RawNext]_vars

\* ------------------------------------------------------ SingleR fine-tuning
\* Labels are numbered; a similarity score and fine_tune_threshold are counted
\* in units of 0.05 (ThresholdUnits of them make 1.0).  The thresholds drawn:
\* 0.05, the default of main(), and 2.5.
ThresholdUnits == 20
Thresholds == {1, 50}
Skipped == -1

\* the labels of a set in ascending order, the order groupby yields them in
SortedSeq(S) == [k \in 1..Cardinality(S) |->
                    CHOOSE x \in S : Cardinality({y \in S : y <= x}) = k]

\* the k-th smallest of the scores of the labels of S
KthSmallest(S, sim, k) ==
    LET values == {sim[p] : p \in S}
    IN  CHOOSE v \in values :
            /\ Cardinality({p \in S : sim[p] <= v}) >= k
            /\ \A u \in values : u < v => Cardinality({p \in S : sim[p] <= u}) < k

\* twice np.median(list(res_labels.values()))
TwiceMedian(S, sim) ==
    LET n == Cardinality(S)
    IN  KthSmallest(S, sim, (n + 1) \div 2) + KthSmallest(S, sim, (n + 2) \div 2)

\* _fine_tune_one_time(self, top_labels, ref, test, trained_data).  early:
\* fewer than 20 label genes, or a test row without variance.  sim: the
\* score of every label, Skipped for a label whose similarity is empty.
fine_tune_one_time_of(top_labels, early, sim, threshold) ==
    LET res_labels == {p \in SeqRange(top_labels) : sim[p] # Skipped}
        above == {p \in res_labels : 2 * sim[p] > TwiceMedian(res_labels, sim)}
        max_value == MaxOf({sim[p] : p \in above})
        kept == {p \in above : sim[p] >= max_value - threshold}
    IN  IF early \/ res_labels = {} \/ above = {} \/ kept = {}
        THEN <<top_labels[1]>>
        ELSE SortedSeq(kept)

\* the limit the bounded loop compares try_num with: fine_tune_threshold
try_limit(times, threshold) == threshold

\* the condition of the while loop that _fine_tune_parallel runs
fine_tune_goes_on ==
    IF ft_times # 0
    THEN /\ ft_try_num * ThresholdUnits < try_limit(ft_times, ft_threshold)
         /\ Len(ft_labels) > 1
    ELSE Len(ft_labels) > 1

\* _fine_tune_parallel is called with a non-empty list of candidate labels
FineTuneInit ==
    /\ ft_pc = "loop"
    /\ ft_times \in 0..MaxTimes
    /\ ft_threshold \in Thresholds
    /\ \E S \in (SUBSET (1..MaxLabels)) \ {{}} : ft_first = SortedSeq(S)
    /\ ft_labels = ft_first
    /\ ft_try_num = 0
    /\ ft_rounds = 0
    /\ ft_result = 0
    /\ TileIdle
    /\ RoiIdle
    /\ MsIdle
    /\ StIdle

\* one iteration of the while loop:
\* labels = self._fine_tune_one_time(labels, ref, y, trained_data)
fine_tune_one_time ==
    /\ ft_pc = "loop"
    /\ fine_tune_goes_on
    /\ \E early \in BOOLEAN,
          sim \in [SeqRange(ft_labels) -> {Skipped} \cup (0..MaxScore)] :
            ft_labels' = fine_tune_one_time_of(ft_labels, early, sim, ft_threshold)
    /\ ft_try_num' = IF ft_times # 0 THEN ft_try_num + 1 ELSE ft_try_num
    /\ ft_rounds' = ft_rounds + 1
    /\ UNCHANGED <<ft_pc, ft_times, ft_threshold, ft_first, ft_result>>
    /\ UNCHANGED <<tileVars, roiVars, loadVars, cfgVars, postVars, msVars, stVars>>

\* return labels[0]
fine_tune_return ==
    /\ ft_pc = "loop"
    /\ ~fine_tune_goes_on
    /\ ft_result' = ft_labels[1]
    /\ ft_pc' = "returned"
    /\ UNCHANGED <<ft_times, ft_threshold, ft_first, ft_labels, ft_try_num, ft_rounds>>
    /\ UNCHANGED <<tileVars, roiVars, loadVars, cfgVars, postVars, msVars, stVars>>

FineTuneNext ==
    \/ fine_tune_one_time
    \/ fine_tune_return

SpecFineTune == FineTuneInit /\ [][FineTuneNext]_vars

\* ================================================================== claims
\* C1: split followed by merge of the unmodified tiles (same order, with the
\* width_add / height_add split returned) gives back the original raster,
\* pixel for pixel, for every shape and every valid (tile_size, overlap).
C1_RoundTrip == t_pc = "merged" => t_dest = t_image

\* a merged raster of several tiles per axis, with overlap and a shifted last tile
C1_Witness ==
    /\ t_pc = "merged"
    /\ t_ov > 0
    /\ t_split.height_add > 0
    /\ t_split.width_add > 0
    /\ Len(t_split.x_list) >= 9

\* C2: when merge processes the tiles split produced, every pixel of the
\* destination raster is written exactly once, never zero times and never
\* twice.
C2_ExactlyOneWrite ==
    (t_pc = "merged" /\ t_counted) =>
        \A p \in Pixels(t_writes) : t_writes[p[1]][p[2]] = 1

IsScenario == t_shape = <<1000, 1000>> /\ t_cut = 300 /\ t_ov = 20

AfterRoi == pc \in {"roi", "infer", "inferred", "filtered", "mosaicked"}

\* the components of the collaborator's mask that the filter policy keeps
Survivors(idx) ==
    SelectSeq(label_image(raw_tissue_mask[idx]),
              LAMBDA comp : Cardinality(comp) >= min_area)
Rejected(idx) ==
    SelectSeq(label_image(raw_tissue_mask[idx]),
              LAMBDA comp : Cardinality(comp) < min_area)
UnionOf(comps) == UNION {comps[k] : k \in 1..Len(comps)}

\* C5: when the region filter policy rejects at least one connected component,
\* get_roi returns the bounding boxes of the surviving components only, and
\* the rewritten tissue mask is 1 exactly on the surviving components' pixels
\* and 0 on every pixel of a discarded component.
C5_FilterExclusion ==
    AfterRoi =>
        \A idx \in 1..Len(img_list) :
            Len(Rejected(idx)) > 0 =>
                /\ tissue_num[idx] = Len(Survivors(idx))
                /\ tissue_bbox[idx] =
                       [k \in 1..Len(Survivors(idx)) |-> BBoxOf(Survivors(idx)[k])]
                /\ \A p \in Pixels(tissue_mask[idx]) :
                       tissue_mask[idx][p[1]][p[2]] =
                           IF p \in UnionOf(Survivors(idx)) THEN 1 ELSE 0
                /\ \A p \in UnionOf(Rejected(idx)) : tissue_mask[idx][p[1]][p[2]] = 0

\* one large component kept, one single-pixel component discarded and zeroed
C5_Witness ==
    /\ pc = "roi"
    /\ Len(Rejected(1)) = 1
    /\ Cardinality(Rejected(1)[1]) = 1
    /\ Len(Survivors(1)) = 1
    /\ Cardinality(Survivors(1)[1]) >= 4
    /\ tissue_num[1] = 1
    /\ tissue_mask[1] # raw_tissue_mask[1]

\* C6: the tissue filter applied to the already filtered label rasters, with
\* the same tissue mask and bounding boxes, returns them unchanged.
C6_FilterIdempotent ==
    pc \in {"filtered", "mosaicked"} =>
        tissue_label_filter_of(tissue_cell_label_filter, tissue_mask, tissue_num,
                               tissue_bbox) = tissue_cell_label_filter

\* a filtered region in which the filter zeroed a label pixel and kept
\* another one, with instance ids of more than 8 bits
C6_Witness ==
    /\ pc = "filtered"
    /\ tissue_num[1] >= 1
    /\ \E p \in Pixels(tissue_cell_label[1][1]) :
          /\ tissue_cell_label[1][1][p[1]][p[2]] > 255
          /\ tissue_cell_label_filter[1][1][p[1]][p[2]] = 0
    /\ \E p \in Pixels(tissue_cell_label[1][1]) :
          tissue_cell_label_filter[1][1][p[1]][p[2]] > 1

\* ------------------------------------------------------------------ mosaic
BoxesOverlap(a, b) == a[1] < b[3] /\ b[1] < a[3] /\ a[2] < b[4] /\ b[2] < a[4]
PairwiseDisjoint(bboxes) ==
    \A i, j \in 1..Len(bboxes) : i # j => ~BoxesOverlap(bboxes[i], bboxes[j])
InBox(p, bbox) == p[1] > bbox[1] /\ p[1] <= bbox[3] /\ p[2] > bbox[2] /\ p[2] <= bbox[4]
Orders(n) == {o \in [1..n -> 1..n] : \A i, j \in 1..n : o[i] = o[j] => i = j}

\* C7: for pairwise non-overlapping bounding boxes, the canvas equals the
\* region's filtered raster, pixel for pixel, inside each box and is zero at
\* every pixel outside all boxes, in whatever order the regions are written.
C7_DisjointMosaic ==
    pc = "mosaicked" =>
        \A idx \in 1..Len(img_list) :
            PairwiseDisjoint(tissue_bbox[idx]) =>
                /\ \A p \in Pixels(cell_mask[idx]) :
                       /\ \A i \in 1..tissue_num[idx] :
                              InBox(p, tissue_bbox[idx][i]) =>
                                  cell_mask[idx][p[1]][p[2]] =
                                      tissue_cell_label_filter[idx][i]
                                          [p[1] - tissue_bbox[idx][i][1]]
                                          [p[2] - tissue_bbox[idx][i][2]]
                       /\ (\A i \in 1..tissue_num[idx] : ~InBox(p, tissue_bbox[idx][i]))
                              => cell_mask[idx][p[1]][p[2]] = 0
                /\ \A order \in Orders(tissue_num[idx]) :
                       MosaicInOrder(Zeros(Height(img_list[idx]), Width(img_list[idx])),
                                     order, 1, tissue_cell_label_filter[idx],
                                     tissue_bbox[idx]) = cell_mask[idx]

\* a canvas of two or more disjoint regions, one of them with a pixel the
\* tissue filter zeroed
C7_Witness ==
    /\ pc = "mosaicked"
    /\ tissue_num[1] >= 2
    /\ PairwiseDisjoint(tissue_bbox[1])
    /\ tissue_cell_label_filter[1] # tissue_cell_label[1]
    /\ \E p \in Pixels(cell_mask[1]) : cell_mask[1][p[1]][p[2]] > 1


\* The result a single worker computes for image idx, one tile after the
\* other in the order of the split.
SequentialTiles(idx) ==
    LET sp == cell_mask_split(cell_mask[idx], deep_crop_size, split_overlap)
        img_tile == split(img_list[idx], deep_crop_size, split_overlap).img_list
    IN  [sp |-> sp,
         out |-> [i \in 1..Len(img_tile) |->
                     grade_tile(is_water, <<sp.img_list[i], img_tile[i]>>)]]
SequentialPost(idx) ==
    LET st == SequentialTiles(idx)
    IN  merge([i \in 1..Len(st.out) |-> st.out[i][1]], st.sp.x_list, st.sp.y_list,
              <<Height(cell_mask[idx]), Width(cell_mask[idx])>>,
              st.sp.width_add, st.sp.height_add)
SequentialScore(idx) ==
    LET st == SequentialTiles(idx)
    IN  merge([i \in 1..Len(st.out) |-> st.out[i][2]], st.sp.x_list, st.sp.y_list,
              <<Height(cell_mask[idx]), Width(cell_mask[idx])>>,
              st.sp.width_add, st.sp.height_add)

\* C4: Determinism under parallelism.  Whatever the number of workers (>= 1)
\* and whatever the order the worker tasks start and complete in, the post
\* label raster and the score raster of every image are the rasters that the
\* inputs alone determine: those of one worker taking the tiles in order.
C4_Determinism ==
    \A k \in 1..Len(post_mask_list) :
        /\ post_mask_list[k] = SequentialPost(k)
        /\ score_mask_list[k] = SequentialScore(k)

\* C4 witness: two workers, the second tile completed before the first, the
\* two tiles with different results, and the image's rasters are returned.
C4_Witness ==
    /\ pc \in {"next_image", "postprocessed", "saved"}
    /\ post_processing_workers >= 2
    /\ Len(ws.order) >= 2
    /\ ws.order[1] > ws.order[2]
    /\ ws.results[1] # ws.results[2]
    /\ Len(post_mask_list) = ws.idx
    /\ \E r \in 1..Height(post_mask_list[ws.idx]), c \in 1..Width(post_mask_list[ws.idx]) :
          post_mask_list[ws.idx][r][c] # 0

\* C8: Per-image error containment.  When the processing of one image of a
\* batch fails, the run goes on: every other image of the batch is persisted.
ImageFailed == pc = "failed"
C8_Containment ==
    (ImageFailed /\ Len(img_list) >= 2) =>
        \A i \in 1..Len(img_list) :
            i # error.idx => (i <= Len(saved) /\ saved[i].mask = SequentialPost(i))

\* C9: No partial result.  Every raster returned for an image is built from
\* the results of all the tiles of that image; when a tile's task fails, no
\* raster is returned for the image and none is persisted.
AllTilesDone(k) ==
    /\ k <= Len(tile_log)
    /\ Len(tile_log[k]) =
          Len(cell_mask_split(cell_mask[k], deep_crop_size, split_overlap).img_list)
    /\ \A i \in 1..Len(tile_log[k]) : tile_log[k][i] = "done"
C9_NoPartialResult ==
    /\ \A k \in 1..Len(post_mask_list) : AllTilesDone(k)
    /\ Len(score_mask_list) = Len(post_mask_list)
    /\ \A k \in 1..Len(saved) : AllTilesDone(k)
    /\ \A k \in 1..Len(tile_log) :
          (\E i \in 1..Len(tile_log[k]) : tile_log[k][i] = "failed") =>
              /\ Len(post_mask_list) < k
              /\ saved = <<>>
              /\ pc = "failed"

\* C9 witness: of the tiles of the second image one task failed after
\* another had returned its result; the image has no raster.
C9_Witness ==
    /\ pc = "failed"
    /\ error.kind = "worker"
    /\ error.idx = 2
    /\ \E i, j \in 1..Len(ws.status) :
          ws.status[i] = "done" /\ ws.status[j] = "failed"
    /\ Len(post_mask_list) = 1
    /\ saved = <<>>

\* C10: Configuration errors are rejected eagerly.  With overlap >= tile
\* size, tile size <= 0 or no worker, nothing is inferred, no tile is split,
\* no worker task is scheduled and nothing is written.
BadConfig ==
    \/ overlap >= deep_crop_size
    \/ deep_crop_size <= 0
    \/ post_processing_workers = 0
C10_EagerRejection ==
    BadConfig =>
        /\ tissue_cell_label = <<>>
        /\ ws.input_list = <<>>
        /\ ws.status = <<>>
        /\ saved = <<>>

\* The state of image i in the per-image state machine, read off what the
\* pipeline object holds for it: 0 not loaded, 1 Loaded, 2 BitDepthNormalized,
\* 3 RoiExtracted, 4 Inferred, 5 TissueFiltered, 6 Mosaicked, 7 PostProcessed,
\* 8 Persisted.
StageReached(i) ==
    << pc # "called",
       i <= normalized,
       i <= Len(tissue_num),
       i <= Len(tissue_cell_label),
       i <= Len(tissue_cell_label_filter),
       i <= Len(cell_mask),
       i <= Len(post_mask_list),
       i <= Len(saved) >>
ImageStage(i) ==
    IF i <= Len(saved) THEN 8
    ELSE IF i <= Len(post_mask_list) THEN 7
    ELSE IF i <= Len(cell_mask) THEN 6
    ELSE IF i <= Len(tissue_cell_label_filter) THEN 5
    ELSE IF i <= Len(tissue_cell_label) THEN 4
    ELSE IF i <= Len(tissue_num) THEN 3
    ELSE IF i <= normalized THEN 2
    ELSE IF pc # "called" THEN 1
    ELSE 0

\* every state before the one the image is in has been passed through
NoStageSkipped ==
    \A i \in 1..Len(img_list) :
        \A k \in 1..8 : k <= ImageStage(i) => StageReached(i)[k]
OneStageAtATime ==
    \A i \in 1..Len(img_list) :
        ImageStage(i)' = ImageStage(i) \/ ImageStage(i)' = ImageStage(i) + 1

\* C11: Orchestrator stage order.  Every image goes through Loaded,
\* BitDepthNormalized, RoiExtracted, Inferred, TissueFiltered, Mosaicked,
\* PostProcessed, Persisted in this order, one state at a time, none skipped
\* and none gone back to; so it is tissue-filtered before it is mosaicked and
\* persisted only when its post-processing is complete.
C11_StageOrder == [](NoStageSkipped) /\ [][OneStageAtATime]_vars

\* C11 witness: a batch of two images has gone through every state, its
\* tiles post-processed by two workers, and is persisted.
C11_Witness ==
    /\ pc = "saved"
    /\ Len(img_list) = 2
    /\ \A i \in 1..Len(img_list) : ImageStage(i) = 8
    /\ post_processing_workers >= 2
    /\ Len(ws.order) >= 2

\* what merge's loop does to the destination with the placement it is given:
\* no pixel left unwritten, given that the placement is usable at all
PlacementUsable ==
    LET tiles == t_tiles
    IN  /\ Len(t_split.x_list) = Len(tiles)
        /\ Len(t_split.y_list) = Len(tiles)
        /\ \A k \in 1..Len(tiles) :
              /\ t_split.x_list[k] >= 0
              /\ t_split.x_list[k] + Height(tiles[k]) <= t_shape[1]
              /\ t_split.y_list[k] >= 0
              /\ t_split.y_list[k] + Width(tiles[k]) <= t_shape[2]
EveryPixelWritten ==
    \A writes \in {MergeWrites(t_tiles, t_split.x_list, t_split.y_list, t_shape,
                               t_split.width_add, t_split.height_add)} :
        \A r \in 1..t_shape[1], c \in 1..t_shape[2] : writes[r][c] >= 1

DefaultNames == {auto_key(k) : k \in 0..MaxKeys}

AxisGeometry(origins, n, cut_size, ov) ==
    LET stride == cut_size - ov
        last == n - cut_size
    IN  /\ 0 \in origins
        /\ last \in origins
        /\ \A x \in origins :
              /\ 0 <= x /\ x + cut_size <= n
              /\ x # last => x % stride = 0
              /\ (x # last /\ x # 0) => (x - stride) \in origins
        /\ last # 0 =>
              \E x \in origins : x # last /\ x < last /\ last - x <= stride
                                 /\ x % stride = 0 /\ x + stride \notin origins \ {last}

SplitDone == t_pc \in {"split", "merged"}

\* C16: Tile geometry of split.  For a raster at least tile_size high and
\* wide and an overlap smaller than tile_size, every tile is tile_size by
\* tile_size, lies inside the raster, the origins go from 0 by the stride
\* tile_size - overlap, and the last tile of each axis ends at the far edge,
\* moved back and never past the edge.
C16_TileGeometry ==
    (SplitDone /\ t_shape[1] >= t_cut /\ t_shape[2] >= t_cut) =>
        \A tiles \in {t_tiles} :
            /\ Len(tiles) = Len(t_split.x_list)
            /\ Len(tiles) = Len(t_split.y_list)
            /\ \A k \in 1..Len(tiles) :
                  /\ Height(tiles[k]) = t_cut
                  /\ Width(tiles[k]) = t_cut
                  /\ tiles[k] = Slice(t_image, t_split.x_list[k], t_split.x_list[k] + t_cut,
                                      t_split.y_list[k], t_split.y_list[k] + t_cut)
            /\ AxisGeometry(SeqRange(t_split.x_list), t_shape[1], t_cut, t_ov)
            /\ AxisGeometry(SeqRange(t_split.y_list), t_shape[2], t_cut, t_ov)
            /\ t_split.height_add >= 0 /\ t_split.height_add < t_cut - t_ov
            /\ t_split.width_add >= 0 /\ t_split.width_add < t_cut - t_ov

\* C16 witness: a split with overlap that has three origins on the row axis,
\* the last of them moved back to end at the edge.
C16_Witness ==
    /\ t_pc = "split"
    /\ t_shape[1] >= t_cut /\ t_shape[2] >= t_cut
    /\ t_ov > 0
    /\ Cardinality(SeqRange(t_split.x_list)) >= 3
    /\ t_split.height_add > 0

\* C17: Small raster.  Along an axis shorter than tile_size split makes one
\* tile, at offset 0, that covers the whole axis, and merge after split
\* gives back a raster of the original shape and contents.
C17_SmallRaster ==
    /\ (SplitDone /\ t_shape[1] < t_cut) =>
          /\ SeqRange(t_split.x_list) = {0}
          /\ t_split.height_add = 0
          /\ \A tiles \in {t_tiles} :
                \A k \in 1..Len(tiles) : Height(tiles[k]) = t_shape[1]
    /\ (SplitDone /\ t_shape[2] < t_cut) =>
          /\ SeqRange(t_split.y_list) = {0}
          /\ t_split.width_add = 0
          /\ \A tiles \in {t_tiles} :
                \A k \in 1..Len(tiles) : Width(tiles[k]) = t_shape[2]
    /\ (SplitDone /\ t_shape[1] < t_cut /\ t_shape[2] < t_cut) =>
          t_tiles = <<t_image>>
    /\ (t_pc = "merged" /\ (t_shape[1] < t_cut \/ t_shape[2] < t_cut)) =>
          /\ Height(t_dest) = t_shape[1]
          /\ Width(t_dest) = t_shape[2]
          /\ t_dest = t_image

\* C17 witness: a raster lower than the tile and several tiles wide, with
\* overlap, has been split and merged.
C17_Witness ==
    /\ t_pc = "merged"
    /\ t_shape[1] < t_cut
    /\ t_shape[2] > t_cut
    /\ t_ov > 0
    /\ Len(t_split.y_list) >= 3
    /\ t_split.width_add > 0

\* the work units of the current image are made
UnitsMade == pc \in {"pool", "tasks", "merge"}

\* C18: Label / raw tile alignment.  The label raster and the raw raster of
\* an image have the same shape and are split alike: as many raw tiles as
\* label tiles, and work unit i is label tile i with raw tile i, both the
\* window of their raster at the placement (x_list[i], y_list[i]), of the
\* same extent.
C18_TileAlignment ==
    UnitsMade =>
        \A label_split \in {split(cell_mask[ws.idx], deep_crop_size, split_overlap)},
           raw_split \in {split(img_list[ws.idx], deep_crop_size, split_overlap)} :
            /\ Height(cell_mask[ws.idx]) = Height(img_list[ws.idx])
            /\ Width(cell_mask[ws.idx]) = Width(img_list[ws.idx])
            /\ Len(ws.input_list) = Len(label_split.img_list)
            /\ Len(ws.input_list) = Len(raw_split.img_list)
            /\ ws.sp.x_list = raw_split.x_list
            /\ ws.sp.y_list = raw_split.y_list
            /\ \A i \in 1..Len(ws.input_list) :
                  /\ ws.input_list[i][1] = label_split.img_list[i]
                  /\ ws.input_list[i][2] = raw_split.img_list[i]
                  /\ Height(ws.input_list[i][1]) = Height(ws.input_list[i][2])
                  /\ Width(ws.input_list[i][1]) = Width(ws.input_list[i][2])
                  /\ ws.input_list[i][2] =
                        Slice(img_list[ws.idx],
                              ws.sp.x_list[i], ws.sp.x_list[i] + Height(ws.input_list[i][1]),
                              ws.sp.y_list[i], ws.sp.y_list[i] + Width(ws.input_list[i][1]))

\* C18 witness: the second image of a batch, split into four tiles with
\* labels in them, has its work units queued.
C18_Witness ==
    /\ pc = "tasks"
    /\ ws.idx = 2
    /\ Len(ws.input_list) = 4
    /\ \E i \in 1..4 : \E r \in 1..2, c \in 1..2 : ws.input_list[i][1][r][c] # 0
    /\ \A i \in 1..4 : ws.status[i] = "queued"

\* what merge is to be given at position i for the two channels: the result
\* computed from work unit i
LabelResultOf(i) == grade_tile(is_water, ws.input_list[i])[1]
ScoreResultOf(i) == grade_tile(is_water, ws.input_list[i])[2]
ImageMerged ==
    /\ pc \in {"next_image", "postprocessed", "saved"}
    /\ ws.idx = Len(post_mask_list)

\* C19: Results are merged by split-time index.  In whatever order the
\* tasks of an image complete, the result kept at position i is the one
\* computed from tile i, and what merge makes of the label results and of
\* the score results is each tile-i result written at (x_list[i], y_list[i]).
C19_MergedByIndex ==
    /\ \A i \in 1..Len(ws.status) :
          ws.status[i] = "done" =>
              ws.results[i] = <<LabelResultOf(i), ScoreResultOf(i)>>
    /\ ImageMerged =>
          /\ post_mask_list[ws.idx] =
                merge([i \in 1..Len(ws.input_list) |-> LabelResultOf(i)],
                      ws.sp.x_list, ws.sp.y_list,
                      <<Height(cell_mask[ws.idx]), Width(cell_mask[ws.idx])>>,
                      ws.sp.width_add, ws.sp.height_add)
          /\ score_mask_list[ws.idx] =
                merge([i \in 1..Len(ws.input_list) |-> ScoreResultOf(i)],
                      ws.sp.x_list, ws.sp.y_list,
                      <<Height(cell_mask[ws.idx]), Width(cell_mask[ws.idx])>>,
                      ws.sp.width_add, ws.sp.height_add)

\* C19 witness: four tiles with four different results, the first tile the
\* last to complete, and the image is merged.
C19_Witness ==
    /\ ImageMerged
    /\ ws.order = <<2, 3, 4, 1>>
    /\ \A i, j \in 1..4 : i # j => ws.results[i] # ws.results[j]

NoTaskOpen ==
    /\ Len(ws.status) = Len(ws.input_list)
    /\ \A i \in 1..Len(ws.status) : ws.status[i] = "done"
MergeInvoked ==
    \/ Len(post_mask_list') # Len(post_mask_list)
    \/ Len(score_mask_list') # Len(score_mask_list)

\* C20: Barrier before merge.  merge is not invoked for an image while a
\* tile task of the image is pending or running: it is invoked when the
\* results of all tiles are collected, once for the label channel and once
\* for the score channel, with the placement and the width_add / height_add
\* recorded at split time.
C20_BarrierBeforeMerge ==
    /\ [](pc = "merge" => NoTaskOpen)
    /\ [][MergeInvoked =>
            /\ NoTaskOpen
            /\ Len(post_mask_list') = Len(post_mask_list) + 1
            /\ Len(score_mask_list') = Len(score_mask_list) + 1
            /\ Len(post_mask_list') = ws.idx
            /\ ws' = ws
            /\ \A sp \in {cell_mask_split(cell_mask[ws.idx], deep_crop_size, split_overlap)} :
                  /\ ws.sp.x_list = sp.x_list /\ ws.sp.y_list = sp.y_list
                  /\ ws.sp.width_add = sp.width_add /\ ws.sp.height_add = sp.height_add
      ]_vars

\* C20 witness: with two workers and four tiles the coordinator has waited
\* while one task was done and others were running or queued, and has then
\* merged the image.
C20_Witness ==
    /\ pc = "merge"
    /\ post_processing_workers = 2
    /\ Len(ws.status) = 4
    /\ ws.order = <<2, 1, 4, 3>>

\* a step of a worker of the pool: a work unit is taken, returned or raised
WorkerStep == pc = "tasks" /\ pc' = "tasks" /\ ws'.status # ws.status

\* the rasters the coordinator composes: the Mosaic canvases and the merged
\* label and score rasters
Destinations == <<cell_mask, post_mask_list, score_mask_list>>

\* C21: Bounded pool, single writer.  At every moment at most
\* post_processing_workers tiles are being processed; a step of a worker
\* changes neither the input tiles, nor the Mosaic canvases, nor the merged
\* rasters; those rasters change only in the coordinator's mosaic and merge
\* steps.
C21_BoundedPoolSingleWriter ==
    /\ [](Cardinality(Running) <= post_processing_workers)
    /\ [][WorkerStep =>
            /\ ws'.input_list = ws.input_list
            /\ ws'.sp = ws.sp
            /\ img_list' = img_list
            /\ Destinations' = Destinations]_vars
    /\ [][Destinations' # Destinations => pc \in {"filtered", "merge"}]_vars

\* C21 witness: one worker, four tiles: one tile is being processed, one is
\* done and two wait in the queue.
C21_Witness ==
    /\ pc = "tasks"
    /\ post_processing_workers = 1
    /\ Len(ws.status) = 4
    /\ Cardinality(Running) = 1
    /\ ws.status[1] = "done"
    /\ ws.status[4] = "queued"

\* C22: Regions are disjoint by construction.  For every tissue mask and
\* every threshold of the region filter policy, the bounding boxes of two
\* distinct regions that get_roi returns do not overlap, so every pixel of
\* the Mosaic canvas inside a region's bounding box holds that region's
\* filtered label.
C22_RegionsDisjoint ==
    /\ AfterRoi =>
          \A idx \in 1..Len(tissue_bbox) : PairwiseDisjoint(tissue_bbox[idx])
    /\ pc = "mosaicked" =>
          \A idx \in 1..Len(cell_mask) :
              \A i \in 1..tissue_num[idx] :
                  \A p \in Pixels(cell_mask[idx]) :
                      InBox(p, tissue_bbox[idx][i]) =>
                          cell_mask[idx][p[1]][p[2]] =
                              tissue_cell_label_filter[idx][i]
                                  [p[1] - tissue_bbox[idx][i][1]]
                                  [p[2] - tissue_bbox[idx][i][2]]

\* the tissue mask inside the bounding box of region i of image idx
MaskCrop(idx, i) ==
    Slice(tissue_mask[idx], tissue_bbox[idx][i][1], tissue_bbox[idx][i][3],
          tissue_bbox[idx][i][2], tissue_bbox[idx][i][4])

\* C23: TissueMaskFilter zeroes outside tissue and is pure.  For every image
\* and region, every pixel of the filtered label crop whose tissue-mask value
\* inside the region's bounding box is 0 has value 0, the filtered crop has
\* the shape of the bounding box, and the call changes neither the inferred
\* label crops, nor the tissue mask, nor the bounding boxes.
C23_FilterZeroesAndPure ==
    /\ [](pc \in {"filtered", "mosaicked"} =>
            \A idx \in 1..Len(tissue_cell_label_filter) :
                /\ Len(tissue_cell_label_filter[idx]) = tissue_num[idx]
                /\ \A i \in 1..tissue_num[idx] :
                      \A crop \in {MaskCrop(idx, i)}, out \in {tissue_cell_label_filter[idx][i]} :
                          /\ Height(out) = tissue_bbox[idx][i][3] - tissue_bbox[idx][i][1]
                          /\ Width(out) = tissue_bbox[idx][i][4] - tissue_bbox[idx][i][2]
                          /\ \A p \in Pixels(out) :
                                crop[p[1]][p[2]] = 0 => out[p[1]][p[2]] = 0)
    /\ [][tissue_cell_label_filter' # tissue_cell_label_filter =>
            /\ tissue_cell_label' = tissue_cell_label
            /\ tissue_mask' = tissue_mask
            /\ tissue_bbox' = tissue_bbox
            /\ tissue_num' = tissue_num]_vars

\* C23 witness: the second region of an image holds a pixel outside the
\* tissue whose inferred label, an 8-bit instance id, the filter has zeroed.
C23_Witness ==
    /\ pc = "filtered"
    /\ tissue_num[1] = 2
    /\ \E p \in Pixels(tissue_cell_label[1][2]) :
          /\ MaskCrop(1, 2)[p[1]][p[2]] = 0
          /\ tissue_cell_label[1][2][p[1]][p[2]] \in 1..255
          /\ tissue_cell_label_filter[1][2][p[1]][p[2]] = 0

\* measure.label numbers the components in the order a row-major scan meets
\* their first pixel
ScanBefore(p, q) == p[1] < q[1] \/ (p[1] = q[1] /\ p[2] < q[2])
BoxInBounds(bbox, img) ==
    /\ 0 <= bbox[1] /\ bbox[1] < bbox[3] /\ bbox[3] <= Height(img)
    /\ 0 <= bbox[2] /\ bbox[2] < bbox[4] /\ bbox[4] <= Width(img)

\* C24: Region list ordering and alignment.  get_roi returns the surviving
\* regions of each image in ascending connected-component label order and
\* records tissue_num[idx] = len(tissue_bbox[idx]); per-region inference and
\* tissue filtering keep at position i of their lists the raster of the
\* region with bounding box tissue_bbox[idx][i]; every bounding box lies
\* within the raster bounds.
C24_RegionOrder ==
    /\ AfterRoi =>
          \A idx \in 1..Len(img_list) :
              \A kept \in {Survivors(idx)} :
                  /\ tissue_num[idx] = Len(tissue_bbox[idx])
                  /\ Len(tissue_bbox[idx]) = Len(kept)
                  /\ \A k \in 1..Len(kept) :
                        /\ tissue_bbox[idx][k] = BBoxOf(kept[k])
                        /\ BoxInBounds(tissue_bbox[idx][k], img_list[idx])
                        /\ \A l \in (k + 1)..Len(kept) :
                              ScanBefore(FirstPixel(kept[k]), FirstPixel(kept[l]))
    /\ pc \in {"inferred", "filtered", "mosaicked"} =>
          \A idx \in 1..Len(img_list) :
              /\ Len(tissue_cell_label[idx]) = tissue_num[idx]
              /\ \A i \in 1..tissue_num[idx] :
                    /\ Height(tissue_cell_label[idx][i]) =
                           tissue_bbox[idx][i][3] - tissue_bbox[idx][i][1]
                    /\ Width(tissue_cell_label[idx][i]) =
                           tissue_bbox[idx][i][4] - tissue_bbox[idx][i][2]
                    /\ \E kind \in label_kinds :
                          tissue_cell_label[idx][i] =
                              InferredLabel(kind,
                                  <<Height(img_list[idx]), Width(img_list[idx])>>,
                                  tissue_bbox[idx][i])
    /\ pc \in {"filtered", "mosaicked"} =>
          \A idx \in 1..Len(img_list) :
              /\ Len(tissue_cell_label_filter[idx]) = tissue_num[idx]
              /\ \A i \in 1..tissue_num[idx] :
                    tissue_cell_label_filter[idx][i] =
                        label_filter(tissue_cell_label[idx][i], tissue_mask[idx],
                                     tissue_bbox[idx][i])

\* C24 witness: an image of three regions has gone through inference and
\* tissue filtering.
C24_Witness ==
    /\ pc = "filtered"
    /\ tissue_num[1] = 3
    /\ Len(tissue_cell_label_filter[1]) = 3
    /\ tissue_bbox[1][1] # tissue_bbox[1][2]

\* a call of trans16to8, and whether a raster holds 8-bit values only
TransCall == pc = InitBefore("trans16to8") /\ pc' # pc
EightBit(img) == \A p \in Pixels(img) : img[p[1]][p[2]] \in 0..255

\* C25: Bit-depth normalization.  After trans16to8 has returned every image
\* of img_list is 8-bit; an image that was 8-bit is left as it was, a 16-bit
\* image is replaced by its 8-bit conversion at the same index, the number
\* and the order of the images are unchanged; an image of another element
\* type makes the call fail with an assertion before that image, or any
\* image after it, is modified.
C25_BitDepthNormalization ==
    /\ [](pc \in {"normalized", "roi", "infer", "inferred", "filtered", "mosaicked"} =>
            \A idx \in 1..Len(img_list) :
                img_dtype[idx] = "uint8" /\ EightBit(img_list[idx]))
    /\ [][TransCall =>
            /\ Len(img_list') = Len(img_list)
            /\ Len(img_dtype') = Len(img_dtype)
            /\ (pc' = "failed") = (\E idx \in 1..Len(img_list) :
                                      img_dtype[idx] \notin {"uint16", "uint8"})
            /\ pc' # "failed" => pc' = "normalized" /\ error' = error
            /\ pc' = "failed" =>
                  /\ error'.kind = "assertion"
                  /\ img_dtype[error'.idx] \notin {"uint16", "uint8"}
                  /\ \A j \in 1..(error'.idx - 1) : img_dtype[j] \in {"uint16", "uint8"}
                  /\ \A j \in error'.idx..Len(img_list) :
                        img_list'[j] = img_list[j] /\ img_dtype'[j] = img_dtype[j]
            /\ \A idx \in 1..Len(img_list) :
                  /\ img_dtype[idx] = "uint8" =>
                        img_list'[idx] = img_list[idx] /\ img_dtype'[idx] = "uint8"
                  /\ (img_dtype[idx] = "uint16" /\ (pc' = "failed" => idx < error'.idx)) =>
                        /\ img_list'[idx] = transfer_16bit_to_8bit(img_list[idx])
                        /\ img_list'[idx] # img_list[idx]
                        /\ EightBit(img_list'[idx])
                        /\ img_dtype'[idx] = "uint8"
      ]_vars

\* C25 witness: in a batch of two images the first one has been taken through
\* the loop and is 8-bit, and the second one, of another element type, has
\* failed the assertion and is as it was.
C25_Witness ==
    /\ pc = "failed"
    /\ error.kind = "assertion"
    /\ error.idx = 2
    /\ normalized = 1
    /\ img_dtype = <<"uint8", "float32">>

\* C26: Tissue filtering preserves in-tissue labels.  For every pixel whose
\* tissue-mask value is 1 the filtered label equals the inferred instance
\* label at that pixel, whatever the label value (ids above 255 included): no
\* non-zero id becomes 0 and no two ids become the same value.
C26_LabelsPreserved ==
    pc \in {"filtered", "mosaicked"} =>
        \A idx \in 1..Len(tissue_cell_label_filter) :
            \A i \in 1..tissue_num[idx] :
                \A crop \in {MaskCrop(idx, i)} :
                    \A p \in Pixels(tissue_cell_label[idx][i]) :
                        crop[p[1]][p[2]] = 1 =>
                            tissue_cell_label_filter[idx][i][p[1]][p[2]] =
                                tissue_cell_label[idx][i][p[1]][p[2]]

\* C27: Per-image result lists stay aligned with the image list.  After any
\* sequence of get_roi, watershed_score and run calls on one pipeline object
\* of n images, tissue_num, tissue_bbox, post_mask_list and score_mask_list
\* hold no more than one entry per image, exactly n when the calls have
\* returned, and save_cell_mask writes for file idx the masks of the latest
\* run.
C27_ListsAligned ==
    /\ Len(tissue_num) <= Len(img_list)
    /\ Len(tissue_bbox) <= Len(img_list)
    /\ Len(post_mask_list) <= Len(img_list)
    /\ Len(score_mask_list) <= Len(img_list)
    /\ pc = "saved" =>
          /\ Len(tissue_num) = Len(img_list)
          /\ Len(tissue_bbox) = Len(img_list)
          /\ Len(post_mask_list) = Len(img_list)
          /\ Len(score_mask_list) = Len(img_list)
          /\ \A idx \in 1..Len(img_list) :
                /\ saved[idx].mask = post_mask_list[Len(post_mask_list) - Len(img_list) + idx]
                /\ saved[idx].score = score_mask_list[Len(score_mask_list) - Len(img_list) + idx]

\* the entries of a list other than x, in their order
Others(list, x) == SelectSeq(list, LAMBDA e : e # x)
NoDuplicate(list) == \A i, j \in 1..Len(list) : list[i] = list[j] => i = j

\* C28: StPipeline.reset_key_record.  After any sequence of calls every list
\* of key_record holds each res_key at most once; after a call the res_key
\* recorded is the last entry of its key's list, the other entries of that
\* list keep their relative order, the lists of all other keys are as they
\* were, and a key that was unknown has a new list of that one res_key.
C28_KeyRecord ==
    /\ \A k \in DOMAIN key_record : NoDuplicate(key_record[k])
    /\ kr_last.op = "reset_key_record" =>
          \A key \in {kr_last.key}, res_key \in {kr_last.res_key},
             before \in {kr_last.before} :
                /\ DOMAIN key_record = DOMAIN before \cup {key}
                /\ key_record[key][Len(key_record[key])] = res_key
                /\ \A k \in DOMAIN before \ {key} : key_record[k] = before[k]
                /\ key \in DOMAIN before =>
                      /\ Others(key_record[key], res_key) = Others(before[key], res_key)
                      /\ Len(key_record[key]) =
                             Len(before[key]) + (IF res_key \in SeqRange(before[key])
                                                 THEN 0 ELSE 1)
                /\ key \notin DOMAIN before => key_record[key] = <<res_key>>

\* C28 witness: a res_key recorded again for a known key moves from the
\* middle of the key's list to its end, and a key unknown to __init__ has
\* its list.
C28_Witness ==
    /\ kr_last.op = "reset_key_record"
    /\ kr_last.key = "pca"
    /\ kr_last.res_key = "r2"
    /\ kr_last.before["pca"] = <<"r1", "r2", "r3">>
    /\ key_record["pca"] = <<"r1", "r3", "r2">>
    /\ "sct" \in DOMAIN key_record
    /\ key_record["sct"] = <<"r3">>

\* C29: Raw checkpoint isolation.  After any sequence of in-place operations
\* on data, raw_checkpoint and reset_raw_data calls, self.raw holds what the
\* last raw_checkpoint saved, and data and raw do not refer to one object.
C29_RawIsolated ==
    /\ st_raw = st_saved
    /\ st_raw # NoneObj => ~st_same

\* every call of _fine_tune_one_time has made the list shorter and left it
\* non-empty, and what is returned is one of the candidate labels
FineTuneShrinks ==
    /\ Len(ft_labels) >= 1
    /\ ft_rounds <= Len(ft_first) - Len(ft_labels)
    /\ SeqRange(ft_labels) \subseteq SeqRange(ft_first)
    /\ ft_pc = "returned" => ft_result \in SeqRange(ft_labels)

\* C30: SingleR fine-tuning terminates.  For every non-empty list of
\* candidate labels every call of _fine_tune_one_time on more than one label
\* returns a shorter, non-empty list, _fine_tune_parallel returns one label,
\* and when fine_tune_times > 0 no more than fine_tune_times rounds are run.
C30_FineTuneBounded ==
    /\ FineTuneShrinks
    /\ ft_times > 0 => ft_rounds <= ft_times
====
